---- MODULE Spec2Model ----
(***************************************************************************)
(* robotd: the per-board worker (BoardRunner) with its connection          *)
(* multiplexer, the newline-delimited JSON framing of Connection, the      *)
(* servo assembly driver the worker hosts, the supervisor (MasterProcess)  *)
(* with its startup, poll loop, liveness monitor and shutdown, and of the  *)
(* other drivers the game state board, the motor board's status and the    *)
(* board_type_id that names the socket directories; the capture device     *)
(* (CaptureDevice) shared by two threads.                                  *)
(*                                                                         *)
(* Bytes are one-character strings; a byte string is a sequence of them.   *)
(* A JSON value is a tagged record:                                        *)
(*   [t |-> "num", v |-> n]        a non-negative integer                  *)
(*   [t |-> "str", v |-> chars]    a string, chars a sequence of bytes     *)
(*   [t |-> "obj", v |-> pairs]    an object, pairs a sequence of          *)
(*                                 <<key chars, value>> in insertion order *)
(*   [t |-> "null", v |-> <<>>]    null, Python's None                     *)
(***************************************************************************)
EXTENDS Integers, Sequences, FiniteSets, TLC

LF == "\n"
QUOTE == "\""
BSLASH == "\\"

Digits == <<"0", "1", "2", "3", "4", "5", "6", "7", "8", "9">>

Num(n) == [t |-> "num", v |-> n]
Str(s) == [t |-> "str", v |-> s]
Obj(p) == [t |-> "obj", v |-> p]
Null == [t |-> "null", v |-> <<>>]

EmptyObj == Obj(<<>>)

RECURSIVE Concat(_)
Concat(ss) == IF ss = <<>> THEN <<>> ELSE Head(ss) \o Concat(Tail(ss))

Contains(bytes, b) == \E i \in 1..Len(bytes) : bytes[i] = b

(***************************************************************************)
(* json.dumps(message), default separators and ensure_ascii: a string is   *)
(* quoted with newline, quote and backslash escaped, an integer is written *)
(* in decimal, an object is "{" + "key": value joined by ", " + "}", None   *)
(* is null.                                                                *)
(***************************************************************************)
EscapeChar(c) ==
    IF c = LF THEN <<BSLASH, "n">>
    ELSE IF c = QUOTE THEN <<BSLASH, QUOTE>>
    ELSE IF c = BSLASH THEN <<BSLASH, BSLASH>>
    ELSE <<c>>

EncodeStr(s) ==
    <<QUOTE>> \o Concat([i \in 1..Len(s) |-> EscapeChar(s[i])]) \o <<QUOTE>>

RECURSIVE EncodeNum(_)
EncodeNum(n) ==
    IF n < 10 THEN <<Digits[n + 1]>>
    ELSE EncodeNum(n \div 10) \o <<Digits[(n % 10) + 1]>>

RECURSIVE dumps(_)
dumps(val) ==
    IF val.t = "num" THEN EncodeNum(val.v)
    ELSE IF val.t = "str" THEN EncodeStr(val.v)
    ELSE IF val.t = "null" THEN <<"n", "u", "l", "l">>
    ELSE <<"{">>
         \o Concat([i \in 1..Len(val.v) |->
                (IF i > 1 THEN <<",", " ">> ELSE <<>>)
                \o EncodeStr(val.v[i][1]) \o <<":", " ">> \o dumps(val.v[i][2])])
         \o <<"}">>

(***************************************************************************)
(* json.loads(line): a recursive-descent parser over the bytes.  Each      *)
(* parser returns [ok, val, pos]: pos is the index after the value.        *)
(* ok = FALSE is json.JSONDecodeError (a ValueError).                      *)
(***************************************************************************)
ParseFail == [ok |-> FALSE, val |-> Num(0), pos |-> 0]
ParseOk(val, pos) == [ok |-> TRUE, val |-> val, pos |-> pos]

RECURSIVE SkipWs(_, _)
SkipWs(b, i) == IF i <= Len(b) /\ b[i] = " " THEN SkipWs(b, i + 1) ELSE i

DigitValue(c) == CHOOSE d \in 0..9 : Digits[d + 1] = c
IsDigit(c) == \E d \in 0..9 : Digits[d + 1] = c

\* The characters after the opening quote, up to the closing quote.
RECURSIVE ParseStrBody(_, _, _)
ParseStrBody(b, i, acc) ==
    IF i > Len(b) THEN ParseFail
    ELSE IF b[i] = QUOTE THEN ParseOk(Str(acc), i + 1)
    ELSE IF b[i] = LF THEN ParseFail
    ELSE IF b[i] = BSLASH THEN
        IF i + 1 > Len(b) THEN ParseFail
        ELSE IF b[i + 1] = "n" THEN ParseStrBody(b, i + 2, Append(acc, LF))
        ELSE IF b[i + 1] = QUOTE THEN ParseStrBody(b, i + 2, Append(acc, QUOTE))
        ELSE IF b[i + 1] = BSLASH THEN ParseStrBody(b, i + 2, Append(acc, BSLASH))
        ELSE ParseFail
    ELSE ParseStrBody(b, i + 1, Append(acc, b[i]))

RECURSIVE ParseNumBody(_, _, _)
ParseNumBody(b, i, acc) ==
    IF i <= Len(b) /\ IsDigit(b[i])
    THEN ParseNumBody(b, i + 1, 10 * acc + DigitValue(b[i]))
    ELSE ParseOk(Num(acc), i)

\* Python dicts keep one value per key: a repeated key overwrites in place.
PutPair(pairs, k, v) ==
    IF \E j \in 1..Len(pairs) : pairs[j][1] = k
    THEN [j \in 1..Len(pairs) |-> IF pairs[j][1] = k THEN <<k, v>> ELSE pairs[j]]
    ELSE Append(pairs, <<k, v>>)

RECURSIVE ParseValue(_, _)
RECURSIVE ParseMembers(_, _, _)

\* i is at the opening quote of a member's key.
ParseMembers(b, i, acc) ==
    IF i > Len(b) \/ b[i] # QUOTE THEN ParseFail
    ELSE LET k == ParseStrBody(b, i + 1, <<>>) IN
         IF ~k.ok THEN ParseFail
         ELSE LET c == SkipWs(b, k.pos) IN
              IF c > Len(b) \/ b[c] # ":" THEN ParseFail
              ELSE LET v == ParseValue(b, SkipWs(b, c + 1)) IN
                   IF ~v.ok THEN ParseFail
                   ELSE LET e == SkipWs(b, v.pos)
                            more == PutPair(acc, k.val.v, v.val)
                        IN  IF e > Len(b) THEN ParseFail
                            ELSE IF b[e] = "}" THEN ParseOk(Obj(more), e + 1)
                            ELSE IF b[e] = ","
                                 THEN ParseMembers(b, SkipWs(b, e + 1), more)
                            ELSE ParseFail

ParseValue(b, i) ==
    IF i > Len(b) THEN ParseFail
    ELSE IF b[i] = QUOTE THEN ParseStrBody(b, i + 1, <<>>)
    ELSE IF IsDigit(b[i]) THEN
        IF b[i] = "0" /\ i + 1 <= Len(b) /\ IsDigit(b[i + 1]) THEN ParseFail
        ELSE ParseNumBody(b, i, 0)
    ELSE IF b[i] = "{" THEN
        LET j == SkipWs(b, i + 1) IN
        IF j <= Len(b) /\ b[j] = "}" THEN ParseOk(EmptyObj, j + 1)
        ELSE ParseMembers(b, j, <<>>)
    ELSE IF i + 3 <= Len(b) /\ SubSeq(b, i, i + 3) = <<"n", "u", "l", "l">>
    THEN ParseOk(Null, i + 4)
    ELSE ParseFail

loads(line) ==
    LET r == ParseValue(line, SkipWs(line, 1)) IN
    IF r.ok /\ SkipWs(line, r.pos) = Len(line) + 1 THEN r ELSE ParseFail


(***************************************************************************)
(* Connection: the framing of send() and receive().                        *)
(***************************************************************************)
\* send(): line = json.dumps(message).encode('utf-8') + b'\n'
Frame(message) == dumps(message) \o <<LF>>

HasLine(bytes) == Contains(bytes, LF)

FirstLF(bytes) == CHOOSE i \in 1..Len(bytes) :
                      bytes[i] = LF /\ \A j \in 1..(i - 1) : bytes[j] # LF

\* receive(): line = self.data.split(b'\n', 1)[0]
LastLine(bytes) ==
    LET ends == {i \in 1..Len(bytes) : bytes[i] = LF}
        last == CHOOSE i \in ends : \A j \in ends : j <= i
        before == {i \in ends : i < last} \cup {0}
        prev == CHOOSE i \in before : \A j \in before : j <= i
    IN  SubSeq(bytes, prev + 1, last - 1)
FirstLine(bytes) == SubSeq(bytes, 1, FirstLF(bytes) - 1)

\* receive(): self.data = self.data[len(line) + 1:]
RestAfterLineKeepingLF(bytes) == SubSeq(bytes, Len(FirstLine(bytes)) + 1, Len(bytes))
RestAfterLine(bytes) == SubSeq(bytes, Len(FirstLine(bytes)) + 2, Len(bytes))

\* receive(): self.socket.recv(4096) returns at most this many bytes.
RecvSize == 4096

Min(a, b) == IF a < b THEN a ELSE b

IsPrefix(p, q) == Len(p) <= Len(q) /\ SubSeq(q, 1, Len(p)) = p


(***************************************************************************)
(* Bounds of the model.                                                    *)
(***************************************************************************)
MaxSocks == 2        \* connections made to the worker's socket
MaxFrames == 2       \* command frames the clients send
MaxBroadcasts == 1   \* broadcast() calls the driver makes
MaxVals == 2         \* values sent over the framed channel
MaxErrors == 1       \* exceptional conditions raised on sockets

Socks == 1..MaxSocks
SERVER == 0          \* the listening server_socket, as an item of readable

(***************************************************************************)
(* The values of the wire protocol.                                        *)
(***************************************************************************)
Chars(s) == CASE s = "servos"  -> <<"s", "e", "r", "v", "o", "s">>
              [] s = "command" -> <<"c", "o", "m", "m", "a", "n", "d">>
              [] s = "0"       -> <<"0">>
              [] s = "V"       -> <<"V">>

SetServo(n) == <<Chars("servos"), Obj(<< <<Chars("0"), Num(n)>> >>)>>
RunCommand == <<Chars("command"), Str(Chars("V"))>>

\* A command the driver cannot carry out: {"servos": {"V": 1}}.
BadServo == Obj(<< <<Chars("servos"), Obj(<< <<Chars("V"), Num(1)>> >>)>> >>)

\* What a client sends: the status ping {}, {"servos": {"0": 1}},
\* {"servos": {"0": 0}, "command": "V"} and the command that fails.
Commands == { EmptyObj,
              Obj(<<SetServo(1)>>),
              Obj(<<SetServo(0), RunCommand>>),
              BadServo }

\* A line that is not JSON: {
BadLine == <<"{">>

\* What a driver broadcasts, e.g. {"markers": []}.
Messages == { [markers |-> <<>>] }

\* What the framed channel carries: strings with the bytes framing and
\* quoting are about, numbers, objects.
FrValues == { EmptyObj,
              Num(10),
              Str(<<>>),
              Str(<<LF>>),
              Str(<<BSLASH, "n", QUOTE>>),
              Obj(<< <<Chars("0"), Str(<<"a", LF>>)>>, <<Chars("V"), EmptyObj>> >>) }

VARIABLES
    \* BoardRunner
    connections,   \* keys of self.connections, in insertion order
    data,          \* Connection.data of each socket
    pc,            \* where run() is: select, accept, recv, check, crashed
    readable,      \* select's first result
    errorable,     \* select's third result
    sock_idx,      \* position of "for sock in readable"
    dead_sockets,
    \* ServoAssembly
    servo_status,  \* self._servo_status: servo -> level
    \* the sockets and the clients behind them
    sock,          \* unused, backlog (connected, not accepted), open, closed
    backlog,       \* the listening socket's queue
    wire,          \* bytes written by the client, not yet read by recv()
    unsent,        \* rest of a frame the client has written part of
    peer_closed,   \* the client has closed its end
    sock_err,      \* the socket has an exceptional condition pending
    out,           \* messages the worker has sent on each socket
    \* history
    sent_cmds,     \* commands each client has sent, in order
    handled,       \* commands receive() has returned from each socket
    dispatched,    \* commands passed to board.command() from each socket
    emptied,       \* the map went non-empty -> empty, make_safe() not yet called
    last_client_gone,  \* the only connected client closed, no make_safe() since
    after_gone,    \* sockets connected while last_client_gone
    broadcasts,    \* number of broadcast() calls
    errors,        \* number of exceptional conditions raised
    frames,        \* number of frames the clients have sent
    last_broadcast,\* the last broadcast() call: its message, the connections in
                   \* the map at the call (targets), those whose peer had closed
                   \* (failing), those sent the message (delivered), the map
                   \* afterwards (after), the exception that left the call (exc)
    \* the framed channel of Connection on its own
    fr_sent, fr_wire, fr_closed, fr_data, fr_pc, fr_got, fr_partial

workerVars == <<connections, data, pc, readable, errorable, sock_idx,
                dead_sockets, servo_status>>
envVars == <<sock, backlog, wire, unsent, peer_closed, sock_err, out>>
histVars == <<sent_cmds, handled, dispatched, emptied, last_client_gone,
              after_gone, broadcasts, errors, last_broadcast, frames>>
frVars == <<fr_sent, fr_wire, fr_closed, fr_data, fr_pc, fr_got, fr_partial>>

VARIABLES
    \* MasterProcess
    runners,       \* self.runners: key (device path or 'startup') -> runner
    runners_lock,  \* who holds self.runners_lock: free, main, monitor
    main_pc,       \* where the main thread is
    nodes,         \* tick(): initialized_nodes, as device path -> node
    nodes_by_path, \* _process_device_list(): the included nodes by path
    expected_paths,\* _process_device_list(): keys of the map at entry
    new_paths,     \* _process_device_list(): paths still to start
    missing_paths, \* _process_device_list(): paths still to stop
    dead_device,   \* _process_device_list(): the path being stopped
    mon_pc,        \* where _monitor_thread is: off, sleep, scan
    mon_items,     \* _monitor_thread: keys of the scan still to look at
    next_id,       \* identity of the next BoardRunner object
    \* the environment
    devices,       \* the kernel device database: device path -> node
    files,         \* socket path -> the runner whose socket the file is
    \* history
    events,        \* number of plug and unplug events
    exits,         \* number of unexpected worker exits
    runners_at_entry,  \* the map when _process_device_list took the lock
    settled,       \* no plug, unplug or udev event since the last poll
    \* startup and shutdown
    root_file,     \* a plain file lies directly under the root
    interrupted,   \* main() has caught KeyboardInterrupt
    cleanup_types, \* cleanup(): the board types of BOARDS still to process
    monitor_stop_flag, \* self.monitor_stop_flag
    at_interrupt,  \* history: the runners of the map when cleanup() was called
    stopped        \* history: the runners cleanup() terminated, joined and cleaned up

masterVars == <<runners, runners_lock, main_pc, nodes, nodes_by_path,
                expected_paths, new_paths, missing_paths, dead_device,
                mon_pc, mon_items, next_id, devices, files, events, exits,
                runners_at_entry, settled, root_file, interrupted,
                cleanup_types, monitor_stop_flag, at_interrupt, stopped>>
lifeVars == <<root_file, interrupted, cleanup_types, monitor_stop_flag,
              at_interrupt, stopped>>

VARIABLES
    \* GameState
    zone_files,    \* the files under /media, as paths
    game_status,   \* what the last status() returned
    earlier_status,\* history: what the status() before that returned
    game_op,       \* history: the last step, a status() call or a file change
    \* MotorBoard
    motor_status,  \* self._status: key -> value, Absent where there is none
    motor_op,      \* history: the last call on the board
    motor_before,  \* history: self._status before that call
    motor_written, \* history: the bytes that call wrote to self.connection
    \* BoardRunner.__init__
    runner_class,  \* the board type of the runner made last
    runner_path    \* self.socket_path of the runner made last

gameVars == <<zone_files, game_status, earlier_status, game_op>>
motorVars == <<motor_status, motor_op, motor_before, motor_written>>
pathVars == <<runner_class, runner_path>>

VARIABLES
    \* BoardRunner.run() before its loop
    server_socket, \* the server socket: none, bound, listening
    socket_mode,   \* the mode of the socket file: none, default, 0o777
    board_broadcast,   \* self.board.broadcast is set
    board_state    \* board.start(): new (not called), starting, started

runVars == <<server_socket, socket_mode, board_broadcast, board_state>>

VARIABLES
    \* broadcast() called from a thread of the driver
    bc_pc,         \* where the call is: idle, iter, send, returned, raised
    bc_size,       \* the size of the dict when the iteration began
    bc_seen,       \* the connections the iteration has passed
    bc_cur,        \* connection: the socket of the Connection being sent to
    bc_targets,    \* history: the keys of the map when the call began
    bc_exc,        \* history: the exception that left the call
    \* CaptureDevice
    instance,      \* self.instance: the handle, or None
    lock,          \* self.lock: 0 when free, else the thread that holds it
    cap_pc,        \* where each thread is in capture() or close()
    cap_result,    \* what each thread's last call returned or raised
    native_open,   \* the native device has not been closed
    native_calls,  \* history: the native calls made, in order
    calls          \* number of capture() and close() calls

bcVars == <<bc_pc, bc_size, bc_seen, bc_cur, bc_targets, bc_exc>>
captureVars == <<instance, lock, cap_pc, cap_result, native_open,
                 native_calls, calls>>
apartVars == <<bcVars, captureVars>>

\* What the loop of run(), the framed channel and the supervisor leave alone.
restVars == <<runVars, apartVars>>
driverVars == <<gameVars, motorVars, pathVars, restVars>>

vars == <<workerVars, envVars, histVars, frVars, masterVars, driverVars>>

(***************************************************************************)
(* ServoAssembly, with the Arduino answering every serial command.  The    *)
(* model keeps servo 0 of the NUM_SERVOS servos, and of status() the       *)
(* 'servos' entry.                                                         *)
(***************************************************************************)
Servos == {0}

\* dict.get(key, default) on an object
Get(obj, key, default) ==
    IF obj.t = "obj" /\ \E j \in 1..Len(obj.v) : obj.v[j][1] = key
    THEN obj.v[CHOOSE j \in 1..Len(obj.v) : obj.v[j][1] = key][2]
    ELSE default

\* int(servo_id)
ToInt(chars) == ParseNumBody(chars, 1, 0).val.v

\* _set_servo(servo, status) for a number: level 150..550 for -1 <= status <= 1,
\* no change otherwise.  int((550 - 150) * ((status + 1) / 2)) in integers.
ServoLevel(status) == 150 + ((550 - 150) * (status + 1)) \div 2

set_servo(levels, servo, status) ==
    IF status.t = "num" /\ status.v <= 1
    THEN [k \in DOMAIN levels \cup {servo} |->
             IF k = servo THEN ServoLevel(status.v) ELSE levels[k]]
    ELSE levels

\* int(servo_id) raises ValueError unless the key is a decimal number.
IntRaises(chars) == chars = <<>> \/ \E i \in 1..Len(chars) : ~IsDigit(chars[i])

\* -1 <= status <= 1 raises TypeError for a string or an object.
StatusRaises(value) == value.t # "num"

PairRaises(pair) == IntRaises(pair[1]) \/ StatusRaises(pair[2])

\* for servo_id, status in servos.items(): the loop ends where a servo raises.
RECURSIVE set_servos(_, _)
set_servos(levels, pairs) ==
    IF pairs = <<>> \/ PairRaises(pairs[1]) THEN levels
    ELSE set_servos(set_servo(levels, ToInt(pairs[1][1]), pairs[1][2]), Tail(pairs))

\* make_safe(): _set_servo(servo, None) for every servo: level 0.
SafeLevels == [s \in Servos |-> 0]
make_safe(levels) == SafeLevels

\* status()
status(levels) == [servos |-> levels]

\* command(cmd): the servo levels afterwards.
command_servos(levels, cmd) ==
    LET servos == Get(cmd, Chars("servos"), EmptyObj) IN
    IF servos.t = "obj" THEN set_servos(levels, servos.v) ELSE levels

\* command(cmd): whether it returns self._generic_command(command), i.e.
\* cmd.get('command', []) is truthy.
command_responds(cmd) ==
    LET c == Get(cmd, Chars("command"), Str(<<>>)) IN
    \/ c.t = "num" /\ c.v # 0
    \/ c.t # "num" /\ c.v # <<>>

\* command(cmd) raises: cmd or cmd['servos'] is no dict (AttributeError), or
\* a servo of it raises.
command_raises(cmd) ==
    \/ cmd.t # "obj"
    \/ LET servos == Get(cmd, Chars("servos"), EmptyObj) IN
       \/ servos.t # "obj"
       \/ \E j \in 1..Len(servos.v) : PairRaises(servos.v[j])

\* _generic_command(command), the Arduino answering: {'status': 'ok', ...}
generic_command(cmd) == [status |-> "ok"]


(***************************************************************************)
(* The sockets.                                                            *)
(***************************************************************************)
InMap(s) == \E i \in 1..Len(connections) : connections[i] = s

\* select(): a connection is ready to read when bytes or the peer's close
\* are pending, the server socket when a client waits to be accepted.
ReadyToRead(s) == wire[s] # <<>> \/ peer_closed[s]

ReadableNow ==
    (IF backlog # <<>> THEN <<SERVER>> ELSE <<>>)
    \o SelectSeq(connections, ReadyToRead)

HasError(s) == sock_err[s]
ErrorableNow == SelectSeq(connections, HasError)

\* socket.sendall() on a socket whose peer has closed raises.
SendFails(s) == peer_closed[s]

\* The exceptions sendall() raises then.
SendErrors == {"BrokenPipeError", "ConnectionRefusedError"}

Connected(s) == sock[s] \in {"backlog", "open"} /\ ~peer_closed[s]

(***************************************************************************)
(* The clients.                                                            *)
(***************************************************************************)
\* The worker process has ended: an exception has left run(), or the
\* supervisor has terminated it (then joined it, then cleaned up after it).
Ended == {"crashed", "terminated", "joined", "cleaned"}

ClientConnect ==
    /\ pc \notin Ended
    /\ server_socket = "listening"
    /\ \E s \in Socks :
        /\ sock[s] = "unused"
        /\ \A t \in Socks : t < s => sock[t] # "unused"
        /\ sock' = [sock EXCEPT ![s] = "backlog"]
        /\ backlog' = Append(backlog, s)
        /\ after_gone' = IF last_client_gone THEN after_gone \cup {s} ELSE after_gone
    /\ UNCHANGED <<workerVars, wire, unsent, peer_closed, sock_err, out, frVars, masterVars, driverVars,
                   sent_cmds, handled, dispatched, emptied, last_client_gone,
                   broadcasts, errors, last_broadcast, frames>>

\* Where a client may cut a frame in two writes.
SplitPoints(frame) == {1, Len(frame)}

ClientSend ==
    /\ pc \notin Ended
    /\ \E s \in Socks, c \in Commands :
        /\ Connected(s)
        /\ unsent[s] = <<>>
        /\ frames < MaxFrames
        /\ frames' = frames + 1
        /\ \E k \in SplitPoints(Frame(c)) :
            /\ wire' = [wire EXCEPT ![s] = @ \o SubSeq(Frame(c), 1, k)]
            /\ unsent' = [unsent EXCEPT ![s] = SubSeq(Frame(c), k + 1, Len(Frame(c)))]
        /\ sent_cmds' = [sent_cmds EXCEPT ![s] = Append(@, c)]
    /\ UNCHANGED <<workerVars, sock, backlog, peer_closed, sock_err, out, frVars, masterVars, driverVars,
                   handled, dispatched, emptied, last_client_gone, after_gone,
                   broadcasts, errors, last_broadcast>>

\* A client writes a line that is not JSON.
ClientSendBad ==
    /\ pc \notin Ended
    /\ \E s \in Socks :
        /\ Connected(s)
        /\ unsent[s] = <<>>
        /\ frames < MaxFrames
        /\ frames' = frames + 1
        /\ wire' = [wire EXCEPT ![s] = @ \o BadLine \o <<LF>>]
    /\ UNCHANGED <<workerVars, sock, backlog, unsent, peer_closed, sock_err, out,
                   frVars, masterVars, driverVars, sent_cmds, handled, dispatched, emptied,
                   last_client_gone, after_gone, broadcasts, errors,
                   last_broadcast>>

ClientFlush ==
    /\ pc \notin Ended
    /\ \E s \in Socks :
        /\ Connected(s)
        /\ unsent[s] # <<>>
        /\ wire' = [wire EXCEPT ![s] = @ \o unsent[s]]
        /\ unsent' = [unsent EXCEPT ![s] = <<>>]
    /\ UNCHANGED <<workerVars, sock, backlog, peer_closed, sock_err, out, frVars, masterVars, driverVars,
                   histVars>>

ClientClose ==
    /\ pc \notin Ended
    /\ \E s \in Socks :
        /\ Connected(s)
        /\ peer_closed' = [peer_closed EXCEPT ![s] = TRUE]
        /\ unsent' = [unsent EXCEPT ![s] = <<>>]
        /\ last_client_gone' =
              \/ last_client_gone
              \/ InMap(s) /\ \A t \in Socks \ {s} : ~Connected(t)
    /\ UNCHANGED <<workerVars, sock, backlog, wire, sock_err, out, frVars, masterVars, driverVars,
                   sent_cmds, handled, dispatched, emptied, after_gone,
                   broadcasts, errors, last_broadcast, frames>>

\* An exceptional condition on a connection, which select() reports.
SockError ==
    /\ pc \notin Ended
    /\ \E s \in Socks :
        /\ sock[s] = "open"
        /\ ~sock_err[s]
        /\ errors < MaxErrors
        /\ sock_err' = [sock_err EXCEPT ![s] = TRUE]
        /\ errors' = errors + 1
    /\ UNCHANGED <<workerVars, sock, backlog, wire, unsent, peer_closed, out,
                   frVars, masterVars, driverVars, sent_cmds, handled, dispatched, emptied,
                   last_client_gone, after_gone, broadcasts, last_broadcast, frames>>


(***************************************************************************)
(* BoardRunner.run(): one loop iteration is Select, Accept, the for loop   *)
(* over readable (Skip, RecvBytes, RecvEOF, Dispatch, one per step of      *)
(* receive() and of the loop body), CloseDead, CheckSafe.  An exception    *)
(* that leaves run() ends the worker process: pc = "crashed".              *)
(***************************************************************************)
clientVars == <<wire, unsent, peer_closed, sock_err>>

\* run() before the loop: _create_server_socket() (bind, listen, chmod),
\* self.board.broadcast = self.broadcast, self.board.start(), then the loop.
StartBeforeBroadcast == <<"bind", "listen", "chmod", "start", "inject", "select">>
run_steps == <<"bind", "listen", "chmod", "inject", "start", "select">>

Following(step) ==
    run_steps[(CHOOSE i \in 1..Len(run_steps) : run_steps[i] = step) + 1]

startVars == <<connections, data, readable, errorable, sock_idx, dead_sockets,
               envVars, histVars, frVars, masterVars, gameVars, motorVars,
               pathVars, apartVars>>

\* server_socket.bind(str(self.socket_path))
Bind ==
    /\ pc = "bind"
    /\ server_socket' = "bound"
    /\ socket_mode' = "default"
    /\ pc' = Following("bind")
    /\ UNCHANGED <<board_broadcast, board_state, servo_status, startVars>>

\* server_socket.listen(5)
Listen ==
    /\ pc = "listen"
    /\ server_socket' = "listening"
    /\ pc' = Following("listen")
    /\ UNCHANGED <<socket_mode, board_broadcast, board_state, servo_status,
                   startVars>>

\* self.socket_path.chmod(0o777)
Chmod ==
    /\ pc = "chmod"
    /\ socket_mode' = "0o777"
    /\ pc' = Following("chmod")
    /\ UNCHANGED <<server_socket, board_broadcast, board_state, servo_status,
                   startVars>>

\* self.board.broadcast = self.broadcast
InjectBroadcast ==
    /\ pc = "inject"
    /\ board_broadcast' = TRUE
    /\ pc' = Following("inject")
    /\ UNCHANGED <<server_socket, socket_mode, board_state, servo_status,
                   startVars>>

\* self.board.start() is called
StartCall ==
    /\ pc = "start"
    /\ board_state' = "starting"
    /\ pc' = "in_start"
    /\ UNCHANGED <<server_socket, socket_mode, board_broadcast, servo_status,
                   startVars>>

\* self.board.start() returns; it ends with make_safe()
StartReturn ==
    /\ pc = "in_start"
    /\ board_state' = "started"
    /\ servo_status' = make_safe(servo_status)
    /\ pc' = Following("start")
    /\ UNCHANGED <<server_socket, socket_mode, board_broadcast, startVars>>

Select ==
    /\ pc = "select"
    /\ ReadableNow # <<>> \/ ErrorableNow # <<>>
    /\ readable' = ReadableNow
    /\ errorable' = ErrorableNow
    /\ pc' = "accept"
    /\ UNCHANGED <<connections, data, sock_idx, dead_sockets, servo_status,
                   envVars, histVars, frVars, masterVars, driverVars>>

\* _send_board_status(new_connection): what a new connection is sent.
NoGreeting(levels) == <<>>
Greeting(levels) == <<status(levels)>>

Accept ==
    /\ pc = "accept"
    /\ sock_idx' = 1
    /\ dead_sockets' = <<>>
    /\ IF readable # <<>> /\ readable[1] = SERVER
       THEN LET new_socket == Head(backlog) IN
            /\ backlog' = Tail(backlog)
            /\ sock' = [sock EXCEPT ![new_socket] = "open"]
            /\ readable' = Append(readable, new_socket)
            /\ connections' = Append(connections, new_socket)
            /\ data' = [data EXCEPT ![new_socket] = <<>>]
            /\ IF SendFails(new_socket)
               THEN pc' = "crashed" /\ out' = out
               ELSE /\ pc' = "recv"
                    /\ out' = [out EXCEPT ![new_socket] = @ \o Greeting(servo_status)]
       ELSE /\ pc' = "recv"
            /\ UNCHANGED <<backlog, sock, readable, connections, data, out>>
    /\ UNCHANGED <<errorable, servo_status, clientVars, histVars, frVars, masterVars, driverVars>>

InForLoop == pc = "recv" /\ sock_idx <= Len(readable)
CurSock == readable[sock_idx]

\* connection = self.connections[sock] raises KeyError: continue
Skip ==
    /\ InForLoop
    /\ ~InMap(CurSock)
    /\ sock_idx' = sock_idx + 1
    /\ UNCHANGED <<connections, data, pc, readable, errorable, dead_sockets,
                   servo_status, envVars, histVars, frVars, masterVars, driverVars>>

\* receive(): self.data += message
AppendData(buffer, message) == buffer \o message

\* receive(): no newline buffered, recv() returns the pending bytes.
RecvBytes ==
    /\ InForLoop
    /\ InMap(CurSock)
    /\ ~HasLine(data[CurSock])
    /\ wire[CurSock] # <<>>
    /\ LET n == Min(Len(wire[CurSock]), RecvSize) IN
        /\ data' = [data EXCEPT ![CurSock] =
                        AppendData(@, SubSeq(wire[CurSock], 1, n))]
        /\ wire' = [wire EXCEPT ![CurSock] = SubSeq(@, n + 1, Len(@))]
    /\ UNCHANGED <<connections, pc, readable, errorable, sock_idx, dead_sockets,
                   servo_status, sock, backlog, unsent, peer_closed, sock_err,
                   out, histVars, frVars, masterVars, driverVars>>

\* receive(): no newline buffered, recv() returns b'': receive() returns
\* None and run() marks the socket dead.
RecvEOF ==
    /\ InForLoop
    /\ InMap(CurSock)
    /\ ~HasLine(data[CurSock])
    /\ wire[CurSock] = <<>>
    /\ peer_closed[CurSock]
    /\ dead_sockets' = Append(dead_sockets, CurSock)
    /\ sock_idx' = sock_idx + 1
    /\ UNCHANGED <<connections, data, pc, readable, errorable, servo_status,
                   envVars, histVars, frVars, masterVars, driverVars>>

\* if command != {}: the command goes to board.command()
NeverPing(cmd) == FALSE
IsPing(cmd) == cmd = EmptyObj

\* What run() sends after a command: the response when there is one (a
\* sequence of zero or one values stands for None or a value), then the
\* status read after the command.
StaleStatus(response, before, after) ==
    [i \in 1..Len(response) |-> [response |-> response[i]]] \o <<status(before)>>
Replies(response, before, after) ==
    [i \in 1..Len(response) |-> [response |-> response[i]]] \o <<status(after)>>

\* receive() returns a message; run() dispatches it and replies.
Dispatch ==
    /\ InForLoop
    /\ InMap(CurSock)
    /\ HasLine(data[CurSock])
    /\ LET s == CurSock
           message == loads(FirstLine(data[s]))
           cmd == message.val
       IN
        /\ data' = [data EXCEPT ![s] = RestAfterLine(@)]
        /\ sock_idx' = sock_idx + 1
        /\ IF ~message.ok
           THEN \* json.loads raises ValueError
                /\ pc' = "crashed"
                /\ UNCHANGED <<servo_status, out, handled, dispatched>>
           ELSE /\ handled' = [handled EXCEPT ![s] = Append(@, cmd)]
                /\ servo_status' = IF IsPing(cmd) THEN servo_status
                                   ELSE command_servos(servo_status, cmd)
                /\ dispatched' = IF IsPing(cmd) THEN dispatched
                                 ELSE [dispatched EXCEPT ![s] = Append(@, cmd)]
                /\ LET response == IF ~IsPing(cmd) /\ command_responds(cmd)
                                    THEN <<generic_command(cmd)>> ELSE <<>>
                   IN  IF ~IsPing(cmd) /\ command_raises(cmd)
                       THEN \* the exception leaves run()
                            pc' = "crashed" /\ out' = out
                       ELSE IF SendFails(s)
                       THEN \* sendall() raises BrokenPipeError
                            pc' = "crashed" /\ out' = out
                       ELSE /\ pc' = pc
                            /\ out' = [out EXCEPT ![s] =
                                  @ \o Replies(response, servo_status, servo_status')]
    /\ UNCHANGED <<connections, readable, errorable, dead_sockets,
                   sock, backlog, clientVars, frVars, masterVars, driverVars,
                   sent_cmds, emptied, last_client_gone, after_gone,
                   broadcasts, errors, last_broadcast, frames>>

Member(seq, x) == \E i \in 1..Len(seq) : seq[i] = x

\* dead_sockets.extend(errorable); self._close_dead_sockets(dead_sockets)
CloseDead ==
    /\ pc = "recv"
    /\ sock_idx > Len(readable)
    /\ LET dead == dead_sockets \o errorable
           Alive(s) == ~Member(dead, s)
       IN
        /\ dead_sockets' = dead
        /\ connections' = SelectSeq(connections, Alive)
        /\ data' = [s \in Socks |-> IF Member(dead, s) THEN <<>> ELSE data[s]]
        /\ sock' = [s \in Socks |-> IF Member(dead, s) THEN "closed" ELSE sock[s]]
        /\ emptied' = (connections # <<>> /\ connections' = <<>>)
        \* a closed socket is gone: its pending bytes and its history with it
        /\ wire' = [s \in Socks |-> IF Member(dead, s) THEN <<>> ELSE wire[s]]
        /\ unsent' = [s \in Socks |-> IF Member(dead, s) THEN <<>> ELSE unsent[s]]
        /\ sock_err' = [s \in Socks |-> ~Member(dead, s) /\ sock_err[s]]
        /\ out' = [s \in Socks |-> IF Member(dead, s) THEN <<>> ELSE out[s]]
        /\ sent_cmds' = [s \in Socks |-> IF Member(dead, s) THEN <<>> ELSE sent_cmds[s]]
        /\ handled' = [s \in Socks |-> IF Member(dead, s) THEN <<>> ELSE handled[s]]
        /\ dispatched' = [s \in Socks |-> IF Member(dead, s) THEN <<>> ELSE dispatched[s]]
    /\ pc' = "check"
    /\ UNCHANGED <<readable, errorable, sock_idx, servo_status, backlog,
                   peer_closed, frVars, masterVars, driverVars,
                   last_client_gone, after_gone, broadcasts, errors, last_broadcast, frames>>

\* if dead_sockets and not self.connections
WhenStillConnected(dead, conns) == dead # <<>> /\ conns # <<>>
LastConnectionClosed(dead, conns) == dead # <<>> /\ conns = <<>>

CheckSafe ==
    /\ pc = "check"
    /\ pc' = "select"
    /\ IF LastConnectionClosed(dead_sockets, connections)
       THEN /\ servo_status' = make_safe(servo_status)
            /\ emptied' = FALSE
            /\ last_client_gone' = FALSE
            /\ after_gone' = {}
       ELSE UNCHANGED <<servo_status, emptied, last_client_gone, after_gone>>
    \* the locals of the iteration end with it
    /\ readable' = <<>>
    /\ errorable' = <<>>
    /\ dead_sockets' = <<>>
    /\ sock_idx' = 1
    /\ UNCHANGED <<connections, data, envVars, frVars, masterVars, driverVars, sent_cmds, handled,
                   dispatched, broadcasts, errors, last_broadcast, frames>>


(***************************************************************************)
(* BoardRunner.broadcast(message), called by the driver.                   *)
(***************************************************************************)
\* message = dict(message); message['broadcast'] = True
Flagged(message) ==
    [k \in DOMAIN message \cup {"broadcast"} |->
        IF k = "broadcast" THEN TRUE ELSE message[k]]

\* The exception that leaves the try statement around connection.send()
\* when sendall() raises e: the handler of ConnectionRefusedError calls
\* self.connections.remove(), which a dict does not have.
Escapes(e) == IF e = "ConnectionRefusedError" THEN "AttributeError" ELSE e

FailingAt(conns) == {i \in 1..Len(conns) : SendFails(conns[i])}
FirstFailing(conns) == CHOOSE i \in FailingAt(conns) : \A j \in FailingAt(conns) : i <= j

broadcast ==
    /\ pc \notin Ended
    /\ board_broadcast /\ board_state # "new"
    /\ broadcasts < MaxBroadcasts
    /\ broadcasts' = broadcasts + 1
    /\ \E m \in Messages :
        IF FailingAt(connections) = {}
        THEN /\ out' = [s \in Socks |-> IF InMap(s) THEN Append(out[s], Flagged(m))
                                        ELSE out[s]]
             /\ last_broadcast' = [message |-> m, targets |-> connections,
                                   failing |-> {}, delivered |-> connections,
                                   after |-> connections, exc |-> "none"]
        ELSE \E e \in SendErrors :
             LET reached == SubSeq(connections, 1, FirstFailing(connections) - 1) IN
             /\ out' = [s \in Socks |-> IF Member(reached, s)
                                        THEN Append(out[s], Flagged(m)) ELSE out[s]]
             /\ last_broadcast' = [message |-> m, targets |-> connections,
                                   failing |-> {s \in Socks : InMap(s) /\ SendFails(s)},
                                   delivered |-> reached,
                                   after |-> connections, exc |-> Escapes(e)]
    /\ UNCHANGED <<workerVars, sock, backlog, clientVars, frVars, masterVars, driverVars, sent_cmds,
                   handled, dispatched, emptied, last_client_gone, after_gone,
                   errors, frames>>

(***************************************************************************)
(* broadcast(message) called from a thread of the driver while run() is in *)
(* its loop.  The for statement iterates over the dict itself: every step  *)
(* of the iteration looks at the dict as it is then, and raises            *)
(* RuntimeError when its size is not the size it had when the iteration    *)
(* began.  Entries added meanwhile come after the ones that were there.    *)
(***************************************************************************)
threadOthers == <<workerVars, envVars, histVars, frVars, masterVars, gameVars,
                  motorVars, pathVars, runVars, captureVars>>

\* for connection in self.connections.values(): the iteration begins
BroadcastCall ==
    /\ pc \notin Ended
    /\ board_broadcast /\ board_state # "new"
    /\ bc_pc = "idle"
    /\ broadcasts < MaxBroadcasts
    /\ broadcasts' = broadcasts + 1
    /\ bc_size' = Len(connections)
    /\ bc_seen' = {}
    /\ bc_targets' = connections
    /\ bc_pc' = "iter"
    /\ UNCHANGED <<bc_cur, bc_exc, workerVars, envVars, frVars, masterVars,
                   gameVars, motorVars, pathVars, runVars, captureVars,
                   sent_cmds, handled, dispatched, emptied, last_client_gone,
                   after_gone, errors, last_broadcast, frames>>

\* The entries of the dict the iteration has not passed, in their order.
Unseen == SelectSeq(connections, LAMBDA s : s \notin bc_seen)

\* The next step of the iteration: RuntimeError, the next connection, or
\* the end of the loop and of broadcast().
BroadcastNext ==
    /\ pc \notin Ended
    /\ bc_pc = "iter"
    /\ IF Len(connections) # bc_size
       THEN /\ bc_pc' = "raised"
            /\ bc_exc' = "RuntimeError"
            /\ UNCHANGED <<bc_cur, bc_seen>>
       ELSE IF Unseen = <<>>
       THEN /\ bc_pc' = "returned"
            /\ UNCHANGED <<bc_cur, bc_seen, bc_exc>>
       ELSE /\ bc_cur' = Head(Unseen)
            /\ bc_seen' = bc_seen \cup {Head(Unseen)}
            /\ bc_pc' = "send"
            /\ bc_exc' = bc_exc
    /\ UNCHANGED <<bc_size, bc_targets, threadOthers>>

\* connection.send(message): on a socket run() has closed meanwhile
\* sendall() raises OSError, on one whose peer has closed one of SendErrors.
BroadcastSend ==
    /\ pc \notin Ended
    /\ bc_pc = "send"
    /\ IF sock[bc_cur] = "closed"
       THEN /\ bc_pc' = "raised"
            /\ bc_exc' = "OSError"
            /\ out' = out
       ELSE IF SendFails(bc_cur)
       THEN /\ bc_pc' = "raised"
            /\ \E e \in SendErrors : bc_exc' = Escapes(e)
            /\ out' = out
       ELSE /\ bc_pc' = "iter"
            /\ bc_exc' = bc_exc
            /\ \E m \in Messages :
                  out' = [out EXCEPT ![bc_cur] = Append(@, Flagged(m))]
    /\ UNCHANGED <<bc_size, bc_seen, bc_cur, bc_targets, workerVars, sock,
                   backlog, clientVars, histVars, frVars, masterVars,
                   gameVars, motorVars, pathVars, runVars, captureVars>>

(***************************************************************************)
(* The supervisor stops the worker: runner.terminate(), runner.join(),     *)
(* runner.cleanup(), as the worker and its clients see them.               *)
(***************************************************************************)
\* board.stop() in the parent: Board.stop(), which no driver overrides
stop(levels) == levels

\* runner.terminate(): SIGTERM, for which the worker has no handler, ends
\* the process wherever it is; its sockets are closed with it.
WorkerTerminate ==
    /\ pc \notin Ended
    /\ pc' = "terminated"
    /\ UNCHANGED <<connections, data, readable, errorable, sock_idx,
                   dead_sockets, servo_status, envVars, histVars, frVars,
                   masterVars, driverVars>>

\* runner.join()
WorkerJoin ==
    /\ pc = "terminated"
    /\ pc' = "joined"
    /\ UNCHANGED <<connections, data, readable, errorable, sock_idx,
                   dead_sockets, servo_status, envVars, histVars, frVars,
                   masterVars, driverVars>>

\* runner.cleanup(): self._delete_socket_path(), self.board.stop()
WorkerCleanup ==
    /\ pc = "joined"
    /\ pc' = "cleaned"
    /\ socket_mode' = "none"
    /\ servo_status' = stop(servo_status)
    /\ UNCHANGED <<connections, data, readable, errorable, sock_idx,
                   dead_sockets, envVars, histVars, frVars, masterVars,
                   gameVars, motorVars, pathVars, apartVars, server_socket,
                   board_broadcast, board_state>>

(***************************************************************************)
(* Connection on its own: one end send()s values, the other receive()s.    *)
(***************************************************************************)
mainVars == <<workerVars, envVars, histVars>>

\* send(message) on the sending end
FrSend ==
    /\ ~fr_closed
    /\ Len(fr_sent) < MaxVals
    /\ \E v \in FrValues :
        /\ fr_sent' = Append(fr_sent, v)
        /\ fr_wire' = fr_wire \o Frame(v)
    /\ UNCHANGED <<fr_closed, fr_data, fr_pc, fr_got, fr_partial, mainVars, masterVars, driverVars>>

\* send(None) on the sending end
FrSendNone ==
    /\ ~fr_closed
    /\ Len(fr_sent) < MaxVals
    /\ fr_sent' = Append(fr_sent, Null)
    /\ fr_wire' = fr_wire \o Frame(Null)
    /\ UNCHANGED <<fr_closed, fr_data, fr_pc, fr_got, fr_partial, mainVars,
                   masterVars, driverVars>>

\* The sending end is closed when part of a frame has been written.
FrSendPart ==
    /\ ~fr_closed
    /\ \E v \in FrValues : \E n \in 1..(Len(Frame(v)) - 1) :
          fr_wire' = fr_wire \o SubSeq(Frame(v), 1, n)
    /\ fr_closed' = TRUE
    /\ UNCHANGED <<fr_sent, fr_data, fr_pc, fr_got, fr_partial, mainVars,
                   masterVars, driverVars>>

\* close() on the sending end
FrClose ==
    /\ ~fr_closed
    /\ fr_closed' = TRUE
    /\ UNCHANGED <<fr_sent, fr_wire, fr_data, fr_pc, fr_got, fr_partial, mainVars, masterVars, driverVars>>

\* receive() is called
FrCall ==
    /\ fr_pc = "idle"
    /\ fr_pc' = "receive"
    /\ UNCHANGED <<fr_sent, fr_wire, fr_closed, fr_data, fr_got, fr_partial, mainVars, masterVars, driverVars>>

\* receive(): recv(4096) returns some of the pending bytes
FrRecv ==
    /\ fr_pc = "receive"
    /\ ~HasLine(fr_data)
    /\ \E n \in 1..Min(Len(fr_wire), RecvSize) :
        /\ fr_data' = AppendData(fr_data, SubSeq(fr_wire, 1, n))
        /\ fr_wire' = SubSeq(fr_wire, n + 1, Len(fr_wire))
        /\ fr_partial' = (fr_partial \/ fr_wire[n] # LF)
    /\ UNCHANGED <<fr_sent, fr_closed, fr_pc, fr_got, mainVars, masterVars, driverVars>>

\* receive(): recv(4096) returns b'', receive() returns None
FrEOF ==
    /\ fr_pc = "receive"
    /\ ~HasLine(fr_data)
    /\ fr_wire = <<>>
    /\ fr_closed
    /\ fr_pc' = "eof"
    /\ UNCHANGED <<fr_sent, fr_wire, fr_closed, fr_data, fr_got, fr_partial, mainVars, masterVars, driverVars>>

\* receive(): a newline is buffered, the line is cut off and decoded
FrReturn ==
    /\ fr_pc = "receive"
    /\ HasLine(fr_data)
    /\ LET message == loads(FirstLine(fr_data)) IN
        /\ fr_data' = RestAfterLine(fr_data)
        /\ IF message.ok
           THEN fr_pc' = "idle" /\ fr_got' = Append(fr_got, message.val)
           ELSE fr_pc' = "raised" /\ fr_got' = fr_got
    /\ UNCHANGED <<fr_sent, fr_wire, fr_closed, fr_partial, mainVars, masterVars, driverVars>>

(***************************************************************************)
(* MasterProcess: the supervisor.  Of BOARDS the model keeps one type with *)
(* lookup_keys, ServoAssembly (board_type_id 'servo_assembly'), and the    *)
(* type created on startup, GameState ('game').  self.runners[board_type]  *)
(* is keyed by device path for the first and by 'startup' for the second,  *)
(* so one map over both kinds of key stands for self.runners.  A worker    *)
(* process is seen from outside: started, listening once it has bound its  *)
(* socket, exited when it ended by itself, terminated once signalled,      *)
(* joined.                                                                 *)
(***************************************************************************)
MaxCalls == 4        \* capture() and close() calls on the capture device
MaxEvents == 3       \* plug and unplug events
MaxExits == 1        \* unexpected exits of worker processes

Paths == {"p1", "p2"}      \* device paths
Names == {"A", "B"}        \* what name(node) returns
STARTUP == "startup"
Keys == Paths \cup {STARTUP}
NoPath == "none"

\* A node of the device database; NoNode where there is none.
Node(name, included) ==
    [name |-> name, included |-> included, is_initialized |-> FALSE]
NoNode == [name |-> "none", included |-> FALSE, is_initialized |-> FALSE]
IsNode(node) == node.name # "none"

\* The nodes that get plugged in: two the type includes, which may have the
\* same name, and one it does not include.
PlugNodes == {Node("A", TRUE), Node("B", TRUE), Node("A", FALSE)}

\* tick(): n.is_initialized
is_initialized(node) == IsNode(node) /\ node.is_initialized

\* _process_device_list(): board_type.included(x)
included(node) == IsNode(node) /\ node.included

board_type_id(key) == IF key = STARTUP THEN "game" ELSE "servo_assembly"

\* BoardRunner.__init__: root_dir / board_type_id / name
socket_path(type_id, name) == <<type_id, name>>

SocketPaths == {socket_path("game", "state")}
               \cup {socket_path("servo_assembly", n) : n \in Names}

\* A BoardRunner of the map; NoRunner where the map has no entry.
NoRunner == [socket_path |-> <<>>, process |-> "none", id |-> 0]
Runner(path, id) == [socket_path |-> path, process |-> "started", id |-> id]
HasRunner(rs, key) == rs[key].process # "none"

\* runner_process.is_alive()
AlwaysAlive(runner) == TRUE
is_alive(runner) == runner.process \in {"started", "listening", "terminated"}

\* _delete_socket_path(): unlink, FileNotFoundError ignored
delete_socket_path(fs, path) == [fs EXCEPT ![path] = 0]

\* _prepare_socket_path(): the parent directory is made; when it was there
\* and the socket path exists, the old socket is removed.
prepare_socket_path(fs, path) ==
    IF fs[path] # 0 THEN delete_socket_path(fs, path) ELSE fs

\* _process_device_list(): the two differences
NoMissing(expected, actual) == {}
MissingPaths(expected, actual) == expected \ actual
NewPaths(expected, actual) == actual \ expected

ActualPaths(by_path) == {p \in Paths : IsNode(by_path[p])}

(***************************************************************************)
(* The device database.                                                    *)
(***************************************************************************)
mainLocals == <<nodes, nodes_by_path, expected_paths, new_paths,
                missing_paths, dead_device, runners_at_entry>>
monVars == <<mon_pc, mon_items>>

Plug ==
    /\ events < MaxEvents
    /\ \E p \in Paths, node \in PlugNodes :
        /\ ~IsNode(devices[p])
        /\ devices' = [devices EXCEPT ![p] = node]
    /\ events' = events + 1
    /\ settled' = FALSE
    /\ UNCHANGED <<runners, runners_lock, main_pc, mainLocals, monVars,
                   next_id, files, exits, mainVars, frVars, lifeVars, driverVars>>

\* udev finishes setting the node up.
UdevInit ==
    /\ \E p \in Paths :
        /\ IsNode(devices[p])
        /\ ~devices[p].is_initialized
        /\ devices' = [devices EXCEPT ![p].is_initialized = TRUE]
    /\ settled' = FALSE
    /\ UNCHANGED <<runners, runners_lock, main_pc, mainLocals, monVars,
                   next_id, files, events, exits, mainVars, frVars, lifeVars, driverVars>>

Unplug ==
    /\ events < MaxEvents
    /\ \E p \in Paths :
        /\ IsNode(devices[p])
        /\ devices' = [devices EXCEPT ![p] = NoNode]
    /\ events' = events + 1
    /\ settled' = FALSE
    /\ UNCHANGED <<runners, runners_lock, main_pc, mainLocals, monVars,
                   next_id, files, exits, mainVars, frVars, lifeVars, driverVars>>

(***************************************************************************)
(* The worker processes, seen from the supervisor.                         *)
(***************************************************************************)
\* run(): _create_server_socket().  bind() creates the socket file, and
\* raises OSError (address already in use) when the path exists.
RunnerBind ==
    /\ \E k \in Keys :
        /\ runners[k].process = "started"
        /\ IF files[runners[k].socket_path] # 0
           THEN /\ runners' = [runners EXCEPT ![k].process = "exited"]
                /\ files' = files
           ELSE /\ runners' = [runners EXCEPT ![k].process = "listening"]
                /\ files' = [files EXCEPT ![runners[k].socket_path] = runners[k].id]
    /\ UNCHANGED <<runners_lock, main_pc, mainLocals, monVars, next_id,
                   devices, events, exits, settled, mainVars, frVars, lifeVars, driverVars>>

\* The process ends by itself: board.start() raises, an exception leaves
\* run(), or it is killed from outside.
RunnerExit ==
    /\ exits < MaxExits
    /\ \E k \in Keys :
        /\ runners[k].process \in {"started", "listening"}
        /\ runners' = [runners EXCEPT ![k].process = "exited"]
    /\ exits' = exits + 1
    /\ UNCHANGED <<runners_lock, main_pc, mainLocals, monVars, next_id,
                   devices, files, events, settled, mainVars, frVars, lifeVars, driverVars>>

(***************************************************************************)
(* The main thread: MasterProcess.__init__, launch_monitor(), then tick()  *)
(* once a second.                                                          *)
(***************************************************************************)
\* Somebody leaves a plain file directly under the root before the
\* supervisor is started.
StrayFile ==
    /\ main_pc = "init"
    /\ ~root_file
    /\ root_file' = TRUE
    /\ UNCHANGED <<runners, runners_lock, main_pc, mainLocals, monVars,
                   next_id, devices, files, events, exits, settled, interrupted,
                   cleanup_types, monitor_stop_flag, at_interrupt, stopped,
                   mainVars, frVars, driverVars>>

\* The directories directly under the root: one for each board type.
TypeDirs == {sp[1] : sp \in SocketPaths}

\* shutil.rmtree(dir): the directory goes with the sockets in it
rmtree(fs, dirs) == [sp \in SocketPaths |-> IF sp[1] \in dirs THEN 0 ELSE fs[sp]]

\* __init__: clear_socket_files() calls shutil.rmtree() on every entry of the
\* root, in the order iterdir() yields them.  rmtree() of a plain file
\* raises NotADirectoryError, which leaves __init__ and main(): the
\* directories that came before the file are gone, the others are not.
clear_socket_files ==
    /\ main_pc = "init"
    /\ IF root_file
       THEN /\ \E before \in SUBSET TypeDirs : files' = rmtree(files, before)
            /\ main_pc' = "init_raised"
       ELSE /\ files' = rmtree(files, TypeDirs)
            /\ main_pc' = "startup"
    /\ UNCHANGED <<runners, runners_lock, mainLocals, monVars, next_id,
                   devices, events, exits, settled, mainVars, frVars, lifeVars, driverVars>>

\* _start_board_instance(board_type, new_device, **kwargs): the runner is
\* made (its socket path prepared), started and put in the map.
start_board_instance(key, name) ==
    LET path == socket_path(board_type_id(key), name) IN
    /\ files' = prepare_socket_path(files, path)
    /\ runners' = [runners EXCEPT ![key] = Runner(path, next_id)]
    /\ next_id' = next_id + 1

\* __init__: the startup boards; GameState.name() is 'state'.
StartStartup ==
    /\ main_pc = "startup"
    /\ start_board_instance(STARTUP, "state")
    /\ main_pc' = "launch"
    /\ UNCHANGED <<runners_lock, mainLocals, monVars, devices, events, exits,
                   settled, mainVars, frVars, lifeVars, driverVars>>

launch_monitor ==
    /\ main_pc = "launch"
    /\ mon_pc' = "sleep"
    /\ main_pc' = "idle"
    /\ UNCHANGED <<runners, runners_lock, mainLocals, mon_items, next_id,
                   devices, files, events, exits, settled,
                   mainVars, frVars, lifeVars, driverVars>>

\* tick(): list_devices(), initialized_nodes
tick ==
    /\ main_pc = "idle"
    /\ nodes' = [p \in Paths |-> IF is_initialized(devices[p])
                                 THEN devices[p] ELSE NoNode]
    /\ settled' = TRUE
    /\ main_pc' = "tick"
    /\ UNCHANGED <<runners, runners_lock, nodes_by_path, expected_paths,
                   new_paths, missing_paths, dead_device, runners_at_entry,
                   monVars, next_id, devices, files, events, exits,
                   mainVars, frVars, lifeVars, driverVars>>

\* tick(): list_devices() or the iteration over it raises.  tick() catches
\* nothing and main() only KeyboardInterrupt, so the exception leaves main()
\* and the main thread ends.
EnumerationFails ==
    /\ main_pc = "idle"
    /\ main_pc' = "enum_raised"
    /\ UNCHANGED <<runners, runners_lock, mainLocals, monVars, next_id,
                   devices, files, events, exits, settled, mainVars, frVars,
                   lifeVars, driverVars>>

\* _process_device_list(): with self.runners_lock, then the sets
ProcessDeviceList ==
    /\ main_pc = "tick"
    /\ runners_lock = "free"
    /\ runners_lock' = "main"
    /\ nodes_by_path' = [p \in Paths |-> IF included(nodes[p])
                                         THEN nodes[p] ELSE NoNode]
    /\ expected_paths' = {p \in Paths : HasRunner(runners, p)}
    /\ missing_paths' = MissingPaths(expected_paths', ActualPaths(nodes_by_path'))
    /\ new_paths' = NewPaths(expected_paths', ActualPaths(nodes_by_path'))
    /\ runners_at_entry' = runners
    /\ main_pc' = "process"
    /\ UNCHANGED <<runners, nodes, dead_device, monVars, next_id, devices,
                   files, events, exits, settled, mainVars, frVars, lifeVars, driverVars>>

\* for new_device in new_paths
StartNew ==
    /\ main_pc = "process"
    /\ \E new_device \in new_paths :
        /\ start_board_instance(new_device, nodes_by_path[new_device].name)
        /\ new_paths' = new_paths \ {new_device}
    /\ UNCHANGED <<runners_lock, main_pc, nodes, nodes_by_path, expected_paths,
                   missing_paths, dead_device, runners_at_entry, monVars,
                   devices, events, exits, settled, mainVars, frVars, lifeVars, driverVars>>

\* for dead_device in missing_paths: runner.terminate()
Terminate ==
    /\ main_pc = "process"
    /\ new_paths = {}
    /\ \E p \in missing_paths :
        /\ dead_device' = p
        /\ runners' = [runners EXCEPT ![p].process =
                           IF @ = "joined" THEN @ ELSE "terminated"]
    /\ main_pc' = "join"
    /\ UNCHANGED <<runners_lock, nodes, nodes_by_path, expected_paths,
                   new_paths, missing_paths, runners_at_entry, monVars,
                   next_id, devices, files, events, exits, settled,
                   mainVars, frVars, lifeVars, driverVars>>

\* runner.join()
Join ==
    /\ main_pc = "join"
    /\ runners' = [runners EXCEPT ![dead_device].process = "joined"]
    /\ main_pc' = "cleanup"
    /\ UNCHANGED <<runners_lock, mainLocals, monVars, next_id, devices, files,
                   events, exits, settled, mainVars, frVars, lifeVars, driverVars>>

\* runner.cleanup(): _delete_socket_path(), board.stop()
Cleanup ==
    /\ main_pc = "cleanup"
    /\ files' = delete_socket_path(files, runners[dead_device].socket_path)
    /\ main_pc' = "del"
    /\ stopped' = IF interrupted THEN stopped \cup {runners[dead_device].id}
                  ELSE stopped
    /\ UNCHANGED <<runners, runners_lock, mainLocals, monVars, next_id,
                   devices, events, exits, settled, root_file, interrupted,
                   cleanup_types, monitor_stop_flag, at_interrupt,
                   mainVars, frVars, driverVars>>

\* del self.runners[board_type][dead_device]
DropRecord ==
    /\ main_pc = "del"
    /\ runners' = [runners EXCEPT ![dead_device] = NoRunner]
    /\ missing_paths' = missing_paths \ {dead_device}
    /\ dead_device' = NoPath
    /\ main_pc' = "process"
    /\ UNCHANGED <<runners_lock, nodes, nodes_by_path, expected_paths,
                   new_paths, runners_at_entry, monVars, next_id, devices,
                   files, events, exits, settled, mainVars, frVars, lifeVars, driverVars>>

\* _process_device_list() returns: the lock is released, and tick() ends or
\* cleanup() goes on.
Release ==
    /\ main_pc = "process"
    /\ new_paths = {}
    /\ missing_paths = {}
    /\ runners_lock' = "free"
    /\ main_pc' = IF interrupted THEN "shutdown" ELSE "idle"
    /\ nodes' = [p \in Paths |-> NoNode]
    /\ nodes_by_path' = [p \in Paths |-> NoNode]
    /\ expected_paths' = {}
    /\ runners_at_entry' = [k \in Keys |-> NoRunner]
    /\ UNCHANGED <<runners, new_paths, missing_paths, dead_device, monVars,
                   next_id, devices, files, events, exits, settled,
                   mainVars, frVars, lifeVars, driverVars>>

(***************************************************************************)
(* _monitor_thread: every half second, with the lock, the entries whose    *)
(* process is not alive are deleted.                                       *)
(***************************************************************************)
MonitorScan ==
    /\ mon_pc = "sleep"
    /\ runners_lock = "free"
    /\ runners_lock' = "monitor"
    /\ mon_items' = {k \in Keys : HasRunner(runners, k)}
    /\ mon_pc' = "scan"
    /\ UNCHANGED <<runners, main_pc, mainLocals, next_id, devices, files,
                   events, exits, settled, mainVars, frVars, lifeVars, driverVars>>

\* list(runners.items()) is in insertion order: the order the runners
\* were made in.
FirstItem(items) ==
    CHOOSE k \in items : \A j \in items : runners[k].id <= runners[j].id

MonitorCheck ==
    /\ mon_pc = "scan"
    /\ mon_items # {}
    /\ LET device_id == FirstItem(mon_items) IN
        /\ mon_items' = mon_items \ {device_id}
        /\ IF ~is_alive(runners[device_id])
           THEN runners' = [runners EXCEPT ![device_id] = NoRunner]
           ELSE runners' = runners
    /\ UNCHANGED <<runners_lock, main_pc, mainLocals, mon_pc, next_id, devices,
                   files, events, exits, settled, mainVars, frVars, lifeVars, driverVars>>

\* The lock is released and the loop starts again: with the flag set the
\* thread returns.
MonitorRelease ==
    /\ mon_pc = "scan"
    /\ mon_items = {}
    /\ runners_lock' = "free"
    /\ mon_pc' = IF monitor_stop_flag THEN "returned" ELSE "sleep"
    /\ UNCHANGED <<runners, main_pc, mainLocals, mon_items, next_id, devices,
                   files, events, exits, settled, mainVars, frVars, lifeVars, driverVars>>

\* The flag is set before the thread looks at it at the top of the loop;
\* when it is set during the sleep, one more scan is made (MonitorScan).
MonitorReturn ==
    /\ mon_pc = "sleep"
    /\ monitor_stop_flag
    /\ mon_pc' = "returned"
    /\ UNCHANGED <<runners, runners_lock, main_pc, mainLocals, mon_items,
                   next_id, devices, files, events, exits, settled,
                   mainVars, frVars, lifeVars, driverVars>>

(***************************************************************************)
(* Shutdown: main() catches KeyboardInterrupt, raised in tick() or in the  *)
(* sleep after it, and calls cleanup().                                    *)
(***************************************************************************)
\* BOARDS, in the order the classes are defined in
BOARDS == <<"game", "servo_assembly">>

RunnerIds(rs) == {rs[k].id : k \in {key \in Keys : HasRunner(rs, key)}}

\* The exception leaves _process_device_list() where it is, the with
\* statement releasing the lock, and main() calls cleanup().
KeyboardInterrupt ==
    /\ ~interrupted
    /\ main_pc \in {"idle", "tick", "process", "join", "cleanup", "del"}
    /\ runners_lock' = IF runners_lock = "main" THEN "free" ELSE runners_lock
    /\ interrupted' = TRUE
    /\ cleanup_types' = BOARDS
    /\ at_interrupt' = RunnerIds(runners)
    /\ main_pc' = "shutdown"
    /\ nodes' = [p \in Paths |-> NoNode]
    /\ nodes_by_path' = [p \in Paths |-> NoNode]
    /\ expected_paths' = {}
    /\ new_paths' = {}
    /\ missing_paths' = {}
    /\ dead_device' = NoPath
    /\ runners_at_entry' = [k \in Keys |-> NoRunner]
    /\ UNCHANGED <<runners, monVars, next_id, devices, files, events, exits,
                   settled, root_file, monitor_stop_flag, stopped,
                   mainVars, frVars, driverVars>>

\* cleanup(): _process_device_list(board_type, []) for the next board type:
\* with the lock, every runner of the type is missing.
CleanupProcessDeviceList ==
    /\ main_pc = "shutdown"
    /\ cleanup_types # <<>>
    /\ runners_lock = "free"
    /\ runners_lock' = "main"
    /\ nodes_by_path' = [p \in Paths |-> NoNode]
    /\ expected_paths' = {k \in Keys : /\ board_type_id(k) = Head(cleanup_types)
                                       /\ HasRunner(runners, k)}
    /\ missing_paths' = MissingPaths(expected_paths', {})
    /\ new_paths' = NewPaths(expected_paths', {})
    /\ runners_at_entry' = runners
    /\ cleanup_types' = Tail(cleanup_types)
    /\ main_pc' = "process"
    /\ UNCHANGED <<runners, nodes, dead_device, monVars, next_id, devices,
                   files, events, exits, settled, root_file, interrupted,
                   monitor_stop_flag, at_interrupt, stopped,
                   mainVars, frVars, driverVars>>

\* cleanup(): stop_monitor() sets the flag
stop_monitor ==
    /\ main_pc = "shutdown"
    /\ cleanup_types = <<>>
    /\ monitor_stop_flag' = TRUE
    /\ main_pc' = "join_monitor"
    /\ UNCHANGED <<runners, runners_lock, mainLocals, monVars, next_id,
                   devices, files, events, exits, settled, root_file,
                   interrupted, cleanup_types, at_interrupt, stopped,
                   mainVars, frVars, driverVars>>

\* stop_monitor(): self.monitor_thread.join() returns, then cleanup() and
\* main()
JoinMonitor ==
    /\ main_pc = "join_monitor"
    /\ mon_pc = "returned"
    /\ main_pc' = "exited"
    /\ UNCHANGED <<runners, runners_lock, mainLocals, monVars, next_id,
                   devices, files, events, exits, settled, mainVars, frVars,
                   lifeVars, driverVars>>

(***************************************************************************)
(* GameState.  A path is the sequence of its components, each a sequence of *)
(* characters; the file system under /media is the set of the paths of its *)
(* files, the directories being the proper prefixes of these.              *)
(***************************************************************************)
FILE_GLOB == <<<<"m", "e", "d", "i", "a">>, <<"u", "s", "b", "?">>, <<"z", "o", "n", "e", "-", "?">>>>
ZONE_PREFIX == <<"z", "o", "n", "e", "-">>
IGNORE_DIRS_CONTAINING_FILE_NAMES == {<<"m", "a", "i", "n", ".", "p", "y">>}

\* The files that come and go.
ZoneFiles == { <<<<"m", "e", "d", "i", "a">>, <<"u", "s", "b", "0">>, <<"z", "o", "n", "e", "-", "2">>>>,
               <<<<"m", "e", "d", "i", "a">>, <<"u", "s", "b", "1">>, <<"z", "o", "n", "e", "-", "6">>>>,
               <<<<"m", "e", "d", "i", "a">>, <<"u", "s", "b", "0">>, <<"m", "a", "i", "n", ".", "p", "y">>>>,
               <<<<"m", "e", "d", "i", "a">>, <<"z", "o", "n", "e", "-", "2">>>>,
               <<<<"m", "e", "d", "i", "a">>, <<"u", "s", "b", "0">>, <<"z", "o", "n", "e", "-", "x">>>>,
               <<<<"m", "e", "d", "i", "a">>, <<"u", "s", "b", "1">>, <<"z", "o", "n", "e", "-", "3">>, <<"k", "e", "e", "p">>>> }

\* os.path.exists(path): a file, or a directory above one
exists(fs, path) == \E f \in fs : IsPrefix(path, f)

\* fnmatch of one component: '?' stands for any one character
fnmatch(name, pat) ==
    /\ Len(name) = Len(pat)
    /\ \A i \in 1..Len(pat) : pat[i] = "?" \/ pat[i] = name[i]

\* glob.iglob(FILE_GLOB): the existing paths whose components match
iglob(fs, pattern) ==
    {SubSeq(f, 1, Len(pattern)) : f \in {g \in fs : Len(g) >= Len(pattern)}}
        \cap {q \in UNION {{SubSeq(f, 1, n) : n \in 1..Len(f)} : f \in fs} :
                 /\ Len(q) = Len(pattern)
                 /\ \A i \in 1..Len(pattern) : fnmatch(q[i], pattern[i])}

\* The path as the string the glob yields
RECURSIVE PathString(_)
PathString(path) ==
    IF path = <<>> THEN <<>> ELSE <<"/">> \o Head(path) \o PathString(Tail(path))

\* ZONE_REGEX.search(candidate_path): where 'zone-' and a digit stand, the
\* leftmost first; {} is no match
ZoneMatches(str) ==
    {i \in 1..Len(str) : /\ i + Len(ZONE_PREFIX) <= Len(str)
                         /\ SubSeq(str, i, i + Len(ZONE_PREFIX) - 1) = ZONE_PREFIX
                         /\ IsDigit(str[i + Len(ZONE_PREFIX)])}
ZoneMatch(str) == CHOOSE i \in ZoneMatches(str) : \A j \in ZoneMatches(str) : i <= j

\* int(match.group(1))
ZoneOf(str) == DigitValue(str[ZoneMatch(str) + Len(ZONE_PREFIX)])

\* as_siblings(file_path, file_names)
as_siblings(file_path, file_names) ==
    {SubSeq(file_path, 1, Len(file_path) - 1) \o <<x>> : x \in file_names}

\* any_exist(file_paths)
any_exist(fs, file_paths) == \E x \in file_paths : exists(fs, x)

\* find_zone(): the zone of the first candidate that has a digit and no
\* ignored sibling.  iglob() yields the candidates in the order of the
\* directory listings, which is any order: every such candidate can be the
\* first.  {} is NoZoneFound.
IgnoringNothing(fs, candidate_path) == FALSE
Ignored(fs, candidate_path) ==
    any_exist(fs, as_siblings(candidate_path, IGNORE_DIRS_CONTAINING_FILE_NAMES))

StopAtIgnored(fs) ==
    IF \E candidate_path \in iglob(fs, FILE_GLOB) : Ignored(fs, candidate_path)
    THEN {}
    ELSE {ZoneOf(PathString(c)) :
             c \in {candidate_path \in iglob(fs, FILE_GLOB) :
                       ZoneMatches(PathString(candidate_path)) # {}}}
find_zone(fs) ==
    {ZoneOf(PathString(c)) :
        c \in {candidate_path \in iglob(fs, FILE_GLOB) :
                  /\ ZoneMatches(PathString(candidate_path)) # {}
                  /\ ~Ignored(fs, candidate_path)}}

Competition(zone) == [zone |-> zone, mode |-> "competition"]
Development == [zone |-> 0, mode |-> "development"]
NoStatus == [zone |-> 0, mode |-> "none"]

\* status(): what a call can return; self is the board, which keeps what it
\* returned last, and status() does not look at it.
RememberedStatus(self, fs) ==
    IF self.mode = "competition" THEN {self}
    ELSE IF find_zone(fs) = {} THEN {Development}
    ELSE {Competition(zone) : zone \in find_zone(fs)}
GameState_status(self, fs) ==
    IF find_zone(fs) = {} THEN {Development}
    ELSE {Competition(zone) : zone \in find_zone(fs)}

Touch ==
    /\ \E f \in ZoneFiles \ zone_files : zone_files' = zone_files \cup {f}
    /\ game_op' = "touch"
    /\ UNCHANGED <<game_status, earlier_status, motorVars, pathVars, restVars,
                   mainVars, frVars, masterVars>>

Unlink ==
    /\ \E f \in zone_files : zone_files' = zone_files \ {f}
    /\ game_op' = "unlink"
    /\ UNCHANGED <<game_status, earlier_status, motorVars, pathVars, restVars,
                   mainVars, frVars, masterVars>>

\* board.status(), as the worker calls it for every status frame
GameStatusCall ==
    /\ game_status' \in GameState_status(game_status, zone_files)
    /\ earlier_status' = game_status
    /\ game_op' = "status"
    /\ UNCHANGED <<zone_files, motorVars, pathVars, restVars, mainVars, frVars,
                   masterVars>>

(***************************************************************************)
(* MotorBoard.  self._status is a dict: here a function of the keys seen,  *)
(* Absent where the dict has no such key.  A speed is 'coast', 'brake' or  *)
(* a number; of the numbers the model keeps 0 and 1, inside [-1, 1], and   *)
(* 2, outside.                                                             *)
(***************************************************************************)
MotorKeys == {"m0", "m1", "x"}
Absent == [t |-> "absent", v |-> <<>>]
Brake == Str(<<"b", "r", "a", "k", "e">>)
Coast == Str(<<"c", "o", "a", "s", "t">>)
Speed(n) == [t |-> "num", v |-> <<n>>]

Dict(pairs) == [k \in MotorKeys |-> IF k \in DOMAIN pairs THEN pairs[k] ELSE Absent]

MotorCommands == { Dict([m0 |-> Speed(1)]),
                   Dict([m1 |-> Coast]),
                   Dict([m0 |-> Brake, m1 |-> Speed(0)]),
                   Dict([m0 |-> Speed(2)]),
                   Dict([x |-> Speed(1)]) }

\* dict.update(cmd)
update(dict, cmd) == [k \in MotorKeys |-> IF cmd[k] # Absent THEN cmd[k] ELSE dict[k]]

\* byte_for_speed(value); -1 stands for the ValueError
byte_for_speed(value) ==
    IF value = Coast THEN 1
    ELSE IF value = Brake THEN 2
    ELSE IF value.t = "num" /\ value.v[1] <= 1 THEN 128 + 100 * value.v[1]
    ELSE -1

\* make_safe(): both motors are set to brake and the status is a new dict
SafeStatus == Dict([m0 |-> Brake, m1 |-> Brake])
MotorBoard_make_safe_update(st) == update(st, SafeStatus)
MotorBoard_make_safe(st) == SafeStatus

\* command(cmd): the status is updated, then the bytes are made; an unknown
\* speed raises out of command(), and the worker ends.
MotorCommand ==
    /\ motor_op # "raised"
    /\ \E cmd \in MotorCommands :
        /\ motor_status' = update(motor_status, cmd)
        /\ motor_op' = IF \E k \in {"m0", "m1"} :
                              byte_for_speed(motor_status'[k]) = -1
                       THEN "raised" ELSE "command"
        \* bytes([...]) is made before write() is called
        /\ motor_written' =
              IF motor_op' = "raised" THEN <<>>
              ELSE <<2, 2, 3, 2, 2, 1, 3, 1,
                     2, byte_for_speed(motor_status'["m0"]),
                     3, byte_for_speed(motor_status'["m1"])>>
    /\ motor_before' = motor_status
    /\ UNCHANGED <<gameVars, pathVars, restVars, mainVars, frVars, masterVars>>

\* make_safe(), as the worker calls it when the last connection has closed
MotorMakeSafe ==
    /\ motor_op # "raised"
    /\ motor_status' = MotorBoard_make_safe(motor_status)
    /\ motor_op' = "make_safe"
    /\ motor_before' = motor_status
    /\ motor_written' = <<0, 2, 2, 3, 2>>
    /\ UNCHANGED <<gameVars, pathVars, restVars, mainVars, frVars, masterVars>>

(***************************************************************************)
(* CaptureDevice, shared by two threads that call capture() and close().   *)
(* The device is open after __init__.                                      *)
(***************************************************************************)
Threads == {1, 2}

othersVars == <<mainVars, frVars, masterVars, gameVars, motorVars, pathVars,
                runVars, bcVars>>

\* What cvcapture() does with a handle: it fills the buffer (status 1) or
\* fails (status 0); on a handle cvclose() has been called on, anything.
NativeCapture(open) ==
    IF open THEN {"frame", "cvcapture() failed"}
    ELSE {"frame", "cvcapture() failed", "crash"}

\* capture(): if self.instance is None: raise RuntimeError; the buffer is
\* allocated
CaptureCall(t) ==
    /\ cap_pc[t] = "idle"
    /\ calls < MaxCalls
    /\ calls' = calls + 1
    /\ IF instance = "None"
       THEN /\ cap_result' = [cap_result EXCEPT ![t] = "capture device is closed"]
            /\ cap_pc' = cap_pc
       ELSE /\ cap_result' = [cap_result EXCEPT ![t] = "none"]
            /\ cap_pc' = [cap_pc EXCEPT ![t] = "capture_lock"]
    /\ UNCHANGED <<instance, lock, native_open, native_calls, othersVars>>

\* capture(): with self.lock
CaptureAcquire(t) ==
    /\ cap_pc[t] = "capture_lock"
    /\ lock = 0
    /\ lock' = t
    /\ cap_pc' = [cap_pc EXCEPT ![t] = "capture_native"]
    /\ UNCHANGED <<instance, cap_result, native_open, native_calls, calls,
                   othersVars>>

\* capture(): _cvcapture.lib.cvcapture(self.instance, ...), the lock is
\* released, the status is looked at.  None is no pointer: TypeError.
CaptureNative(t) ==
    /\ cap_pc[t] = "capture_native"
    /\ lock' = 0
    /\ cap_pc' = [cap_pc EXCEPT ![t] = "idle"]
    /\ IF instance = "None"
       THEN /\ cap_result' = [cap_result EXCEPT ![t] = "TypeError"]
            /\ native_calls' = native_calls
       ELSE /\ native_calls' = Append(native_calls, "cvcapture")
            /\ \E r \in NativeCapture(native_open) :
                  cap_result' = [cap_result EXCEPT ![t] = r]
    /\ UNCHANGED <<instance, native_open, calls, othersVars>>

\* close(): if self.instance is not None
CloseCall(t) ==
    /\ cap_pc[t] = "idle"
    /\ calls < MaxCalls
    /\ calls' = calls + 1
    /\ cap_result' = [cap_result EXCEPT ![t] = "none"]
    /\ cap_pc' = IF instance = "None" THEN cap_pc
                 ELSE [cap_pc EXCEPT ![t] = "close_lock"]
    /\ UNCHANGED <<instance, lock, native_open, native_calls, othersVars>>

\* close(): with self.lock
CloseAcquire(t) ==
    /\ cap_pc[t] = "close_lock"
    /\ lock = 0
    /\ lock' = t
    /\ cap_pc' = [cap_pc EXCEPT ![t] = "close_native"]
    /\ UNCHANGED <<instance, cap_result, native_open, native_calls, calls,
                   othersVars>>

\* close(): _cvcapture.lib.cvclose(self.instance), the lock is released
CloseNative(t) ==
    /\ cap_pc[t] = "close_native"
    /\ lock' = 0
    /\ IF instance = "None"
       THEN /\ cap_result' = [cap_result EXCEPT ![t] = "TypeError"]
            /\ cap_pc' = [cap_pc EXCEPT ![t] = "idle"]
            /\ UNCHANGED <<native_calls, native_open>>
       ELSE /\ native_calls' = Append(native_calls, "cvclose")
            /\ native_open' = FALSE
            /\ cap_pc' = [cap_pc EXCEPT ![t] = "close_assign"]
            /\ cap_result' = cap_result
    /\ UNCHANGED <<instance, calls, othersVars>>

\* close(): self.instance = None
CloseAssign(t) ==
    /\ cap_pc[t] = "close_assign"
    /\ instance' = "None"
    /\ cap_pc' = [cap_pc EXCEPT ![t] = "idle"]
    /\ UNCHANGED <<lock, cap_result, native_open, native_calls, calls,
                   othersVars>>

(***************************************************************************)
(* BoardMeta.board_type_id and BoardRunner.socket_path.  A board class is  *)
(* its __name__ and the board_type_id its body assigns, <<>> when it       *)
(* assigns none.                                                           *)
(***************************************************************************)
UpperCase == <<"A", "B", "C", "D", "E", "F", "G", "H", "I", "J", "K", "L", "M", "N", "O", "P", "Q", "R", "S", "T", "U", "V", "W", "X", "Y", "Z">>
LowerCase == <<"a", "b", "c", "d", "e", "f", "g", "h", "i", "j", "k", "l", "m", "n", "o", "p", "q", "r", "s", "t", "u", "v", "w", "x", "y", "z">>

IsUpper(c) == \E i \in 1..Len(UpperCase) : UpperCase[i] = c
lower(c) == IF IsUpper(c)
            THEN LowerCase[CHOOSE i \in 1..Len(UpperCase) : UpperCase[i] = c]
            ELSE c

BOARD_SUFFIX == <<"B", "o", "a", "r", "d">>

\* full_name.endswith('Board')
endswith(str, suffix) ==
    /\ Len(str) >= Len(suffix)
    /\ SubSeq(str, Len(str) - Len(suffix) + 1, Len(str)) = suffix

\* if full_name.endswith('Board'): full_name = full_name[:-5]
KeepSuffix(full_name) == full_name
StripSuffix(full_name) ==
    IF endswith(full_name, BOARD_SUFFIX)
    THEN SubSeq(full_name, 1, Len(full_name) - Len(BOARD_SUFFIX))
    ELSE full_name

\* re.sub(r'(?!\A)[A-Z]', r'_\g<0>', full_name).lower(), from character i on
RECURSIVE SnakeFrom(_, _)
SnakeFrom(full_name, i) ==
    IF i > Len(full_name) THEN <<>>
    ELSE (IF i > 1 /\ IsUpper(full_name[i]) THEN <<"_">> ELSE <<>>)
         \o <<lower(full_name[i])>> \o SnakeFrom(full_name, i + 1)

BoardClass(name, override) == [name |-> name, board_type_id |-> override]

MotorBoard == BoardClass(<<"M", "o", "t", "o", "r", "B", "o", "a", "r", "d">>, <<>>)
GameState == BoardClass(<<"G", "a", "m", "e", "S", "t", "a", "t", "e">>, <<"g", "a", "m", "e">>)
PowerBoard == BoardClass(<<"P", "o", "w", "e", "r", "B", "o", "a", "r", "d">>, <<>>)
ServoAssembly == BoardClass(<<"S", "e", "r", "v", "o", "A", "s", "s", "e", "m", "b", "l", "y">>, <<>>)
Camera == BoardClass(<<"C", "a", "m", "e", "r", "a">>, <<>>)

\* BOARDS, with the camera
BoardClasses == {MotorBoard, GameState, PowerBoard, ServoAssembly, Camera}

BoardMeta_board_type_id(cls) ==
    IF cls.board_type_id # <<>> THEN cls.board_type_id
    ELSE SnakeFrom(StripSuffix(cls.name), 1)

\* name(node): GameState's is 'state', the others read it from the node
NodeNames == {<<"t", "t", "y", "A", "C", "M", "0">>, <<"S", "N", "1">>}
name_of(cls, node_name) == IF cls = GameState THEN <<"s", "t", "a", "t", "e">> ELSE node_name

root_dir == <<"/", "v", "a", "r", "/", "r", "o", "b", "o", "t", "d">>

\* BoardRunner.__init__: self.socket_path
MakeRunner ==
    /\ \E cls \in BoardClasses, node_name \in NodeNames :
        /\ runner_class' = cls
        /\ runner_path' = <<root_dir, BoardMeta_board_type_id(cls),
                            name_of(cls, node_name)>>
    /\ UNCHANGED <<gameVars, motorVars, restVars, mainVars, frVars, masterVars>>

(***************************************************************************)
(* Specifications.                                                         *)
(***************************************************************************)
\* The worker when run() begins, its socket not bound yet; the supervisor
\* before MasterProcess.__init__, no device plugged in.
Init ==
    /\ connections = <<>>
    /\ data = [s \in Socks |-> <<>>]
    /\ pc = "bind"
    /\ readable = <<>>
    /\ errorable = <<>>
    /\ sock_idx = 1
    /\ dead_sockets = <<>>
    /\ servo_status = SafeLevels
    /\ sock = [s \in Socks |-> "unused"]
    /\ backlog = <<>>
    /\ wire = [s \in Socks |-> <<>>]
    /\ unsent = [s \in Socks |-> <<>>]
    /\ peer_closed = [s \in Socks |-> FALSE]
    /\ sock_err = [s \in Socks |-> FALSE]
    /\ out = [s \in Socks |-> <<>>]
    /\ sent_cmds = [s \in Socks |-> <<>>]
    /\ handled = [s \in Socks |-> <<>>]
    /\ dispatched = [s \in Socks |-> <<>>]
    /\ emptied = FALSE
    /\ last_client_gone = FALSE
    /\ after_gone = {}
    /\ broadcasts = 0
    /\ errors = 0
    /\ frames = 0
    /\ last_broadcast = [message |-> [markers |-> <<>>], targets |-> <<>>,
                         failing |-> {}, delivered |-> <<>>,
                         after |-> <<>>, exc |-> "none"]
    /\ fr_sent = <<>>
    /\ fr_wire = <<>>
    /\ fr_closed = FALSE
    /\ fr_data = <<>>
    /\ fr_pc = "idle"
    /\ fr_got = <<>>
    /\ fr_partial = FALSE
    /\ runners = [k \in Keys |-> NoRunner]
    /\ runners_lock = "free"
    /\ main_pc = "init"
    /\ nodes = [p \in Paths |-> NoNode]
    /\ nodes_by_path = [p \in Paths |-> NoNode]
    /\ expected_paths = {}
    /\ new_paths = {}
    /\ missing_paths = {}
    /\ dead_device = NoPath
    /\ mon_pc = "off"
    /\ mon_items = {}
    /\ next_id = 2
    /\ devices = [p \in Paths |-> NoNode]
    \* the root holds the socket of a runner (number 1) of an earlier run
    /\ files = [sp \in SocketPaths |->
                   IF sp = socket_path("servo_assembly", "A") THEN 1 ELSE 0]
    /\ events = 0
    /\ exits = 0
    /\ runners_at_entry = [k \in Keys |-> NoRunner]
    /\ settled = FALSE
    /\ root_file = FALSE
    /\ interrupted = FALSE
    /\ cleanup_types = <<>>
    /\ monitor_stop_flag = FALSE
    /\ at_interrupt = {}
    /\ stopped = {}
    /\ zone_files = {}
    /\ game_status = NoStatus
    /\ earlier_status = NoStatus
    /\ game_op = "none"
    /\ motor_status = SafeStatus
    /\ motor_op = "start"
    /\ motor_before = SafeStatus
    /\ motor_written = <<0, 2, 2, 3, 2>>
    /\ runner_class = BoardClass(<<>>, <<>>)
    /\ runner_path = <<>>
    /\ server_socket = "none"
    /\ socket_mode = "none"
    /\ board_broadcast = FALSE
    /\ board_state = "new"
    /\ bc_pc = "idle"
    /\ bc_size = 0
    /\ bc_seen = {}
    /\ bc_cur = 0
    /\ bc_targets = <<>>
    /\ bc_exc = "none"
    /\ instance = "handle"
    /\ lock = 0
    /\ cap_pc = [t \in Threads |-> "idle"]
    /\ cap_result = [t \in Threads |-> "none"]
    /\ native_open = TRUE
    /\ native_calls = <<>>
    /\ calls = 0

Next ==
    \/ Bind
    \/ Listen
    \/ Chmod
    \/ InjectBroadcast
    \/ StartCall
    \/ StartReturn
    \/ ClientConnect
    \/ ClientSend
    \/ ClientSendBad
    \/ ClientFlush
    \/ ClientClose
    \/ SockError
    \/ Select
    \/ Accept
    \/ Skip
    \/ RecvBytes
    \/ RecvEOF
    \/ Dispatch
    \/ CloseDead
    \/ CheckSafe
    \/ broadcast

Spec == Init /\ [][Next]_vars

\* The worker, stopped by the supervisor at any time.
NextStopped == Next \/ WorkerTerminate \/ WorkerJoin \/ WorkerCleanup

SpecStopped == Init /\ [][NextStopped]_vars

\* The worker with a driver whose own thread calls broadcast(), and clients
\* that send well-formed frames.
NextThreaded ==
    \/ Bind
    \/ Listen
    \/ Chmod
    \/ InjectBroadcast
    \/ StartCall
    \/ StartReturn
    \/ ClientConnect
    \/ ClientSend
    \/ ClientFlush
    \/ ClientClose
    \/ Select
    \/ Accept
    \/ Skip
    \/ RecvBytes
    \/ RecvEOF
    \/ Dispatch
    \/ CloseDead
    \/ CheckSafe
    \/ BroadcastCall
    \/ BroadcastNext
    \/ BroadcastSend

SpecThreaded == Init /\ [][NextThreaded]_vars

NextCapture ==
    \E t \in Threads :
        \/ CaptureCall(t)
        \/ CaptureAcquire(t)
        \/ CaptureNative(t)
        \/ CloseCall(t)
        \/ CloseAcquire(t)
        \/ CloseNative(t)
        \/ CloseAssign(t)

SpecCapture == Init /\ [][NextCapture]_vars

NextFraming == FrSend \/ FrClose \/ FrCall \/ FrRecv \/ FrEOF \/ FrReturn

SpecFraming == Init /\ [][NextFraming]_vars

\* The framed channel with a peer that also sends None and may close in
\* the middle of a frame.
NextFramingEnd == NextFraming \/ FrSendNone \/ FrSendPart

SpecFramingEnd == Init /\ [][NextFramingEnd]_vars

NextMaster ==
    \/ Plug
    \/ UdevInit
    \/ Unplug
    \/ RunnerBind
    \/ RunnerExit
    \/ clear_socket_files
    \/ StartStartup
    \/ launch_monitor
    \/ tick
    \/ ProcessDeviceList
    \/ StartNew
    \/ Terminate
    \/ Join
    \/ Cleanup
    \/ DropRecord
    \/ Release
    \/ MonitorScan
    \/ MonitorCheck
    \/ MonitorRelease

SpecMaster == Init /\ [][NextMaster]_vars

\* Every step of the main thread, of the monitor thread and of bind()
\* changes one of these.
progressVars == <<main_pc, mon_pc, mon_items, runners>>

\* The main thread runs on and polls every second, the monitor thread scans
\* every half second, a started process reaches its bind(); each thread
\* gets the lock when it keeps asking for it.
FairMaster ==
    /\ WF_progressVars(clear_socket_files) /\ WF_progressVars(StartStartup)
    /\ WF_progressVars(launch_monitor) /\ WF_progressVars(tick)
    /\ SF_progressVars(ProcessDeviceList)
    /\ WF_progressVars(StartNew) /\ WF_progressVars(Terminate)
    /\ WF_progressVars(Join) /\ WF_progressVars(Cleanup)
    /\ WF_progressVars(DropRecord) /\ WF_progressVars(Release)
    /\ SF_progressVars(MonitorScan) /\ WF_progressVars(MonitorCheck)
    /\ WF_progressVars(MonitorRelease)
    /\ WF_progressVars(RunnerBind)

SpecMasterFair == SpecMaster /\ FairMaster

\* The supervisor from a root that may hold a plain file, with enumeration
\* failures and with the interrupt that shuts it down.
NextLifecycle ==
    \/ NextMaster
    \/ StrayFile
    \/ EnumerationFails
    \/ KeyboardInterrupt
    \/ CleanupProcessDeviceList
    \/ stop_monitor
    \/ JoinMonitor
    \/ MonitorReturn

SpecLifecycle == Init /\ [][NextLifecycle]_vars

NextGame == Touch \/ Unlink \/ GameStatusCall

SpecGame == Init /\ [][NextGame]_vars

NextBoards == MotorCommand \/ MotorMakeSafe \/ MakeRunner

SpecBoards == Init /\ [][NextBoards]_vars


(***************************************************************************)
(* Properties of the framed channel.                                       *)
(***************************************************************************)
\* C9: what receive() returns is what send() was given: the values received
\* are always the first of the values sent, in order, decoding never fails,
\* and once every byte sent has been read and no line is left in the buffer,
\* every value sent has been received and the buffer is empty -- for every
\* way recv() cuts the byte stream.
FramingRoundTrip ==
    /\ fr_pc # "raised"
    /\ IsPrefix(fr_got, fr_sent)
    /\ (fr_wire = <<>> /\ ~HasLine(fr_data)) => (fr_got = fr_sent /\ fr_data = <<>>)

\* Two values, one a string holding a newline, have been received after a
\* recv() that ended in the middle of a frame.
FramingWitness ==
    /\ Len(fr_got) >= 2
    /\ fr_got = fr_sent
    /\ fr_partial
    /\ \E i \in 1..Len(fr_got) : fr_got[i].t = "str" /\ fr_got[i].v = <<LF>>


(***************************************************************************)
(* Properties of the worker loop.                                          *)
(***************************************************************************)
IsStatus(f) == DOMAIN f = {"servos"}
IsResponse(f) == DOMAIN f = {"response"}
IsBroadcast(f) == "broadcast" \in DOMAIN f
IsReply(f) == ~IsBroadcast(f)

\* The frames of the request/reply protocol sent on a socket.
LoopFrames(s) == SelectSeq(out[s], IsReply)

\* run() is about to handle the next buffered command of socket s, and does.
Handling(s) ==
    /\ InForLoop
    /\ CurSock = s
    /\ InMap(s)
    /\ HasLine(data[s])
    /\ loads(FirstLine(data[s])).ok
    /\ data'[s] # data[s]

NextCmd(s) == loads(FirstLine(data[s])).val

\* C1: when removing dead connections takes the map from non-empty to
\* empty, run() is at the test that calls make_safe() and stays "emptied"
\* until make_safe() is called: the call comes in the same iteration, with
\* no command() in between (commands are dispatched in the for loop only).
\* Hence whenever run() waits in select() with no connection, the board is
\* in its safe state.
SafeOnEmpty ==
    /\ emptied => pc = "check"
    /\ (pc = "select" /\ connections = <<>>) => servo_status = SafeLevels

\* The last connection has just been removed while a servo was driven.
SafeOnEmptyWitness == emptied /\ servo_status # SafeLevels

\* C2: a client that connected after the only connected client closed, with
\* no make_safe() since, has not been sent anything and has had no command
\* handled.
SafeBeforeNextClient ==
    \A s \in after_gone : out[s] = <<>> /\ handled[s] = <<>>

\* C3: every connection in the map has been sent the status first; until a
\* frame of it has been handled, the status is the one frame of the
\* request/reply protocol it has been sent (broadcasts aside); and right
\* after the accept that frame is the board's current status and nothing
\* has been read from the connection.
GreetingFirst ==
    /\ \A s \in Socks : (InMap(s) /\ pc # "crashed") =>
          /\ out[s] # <<>>
          /\ IsStatus(out[s][1])
          /\ handled[s] = <<>> => Len(LoopFrames(s)) = 1
    /\ (pc = "recv" /\ sock_idx = 1 /\ readable # <<>> /\ readable[1] = SERVER) =>
          LET s == readable[Len(readable)] IN
          /\ out[s][1] = status(servo_status)
          /\ data[s] = <<>>
          /\ handled[s] = <<>>

\* A connection that has had a command handled, after its greeting.
GreetingFirstWitness ==
    /\ pc # "crashed"
    /\ \E s \in Socks : InMap(s) /\ handled[s] # <<>> /\ IsStatus(out[s][1])

\* C4: handling the empty object {} from a connection whose peer is still
\* there calls no command(), leaves the board as it is and sends that
\* connection exactly one frame, the status.
PingReply ==
    [][\A s \in Socks :
        (Handling(s) /\ NextCmd(s) = EmptyObj /\ ~SendFails(s)) =>
            /\ out'[s] = Append(out[s], status(servo_status))
            /\ dispatched' = dispatched
            /\ servo_status' = servo_status]_vars

\* A connection whose last handled frame is {}: one status per frame after
\* the greeting, and no command dispatched.
PingReplyWitness ==
    /\ pc # "crashed"
    /\ \E s \in Socks :
        /\ InMap(s)
        /\ handled[s] = <<EmptyObj>>
        /\ dispatched[s] = <<>>
        /\ Len(LoopFrames(s)) = 2
        /\ IsStatus(LoopFrames(s)[2])

\* C5: handling a non-empty command for which command() returns a value,
\* from a connection whose peer is still there, passes it to command() and
\* sends that connection exactly two frames: {"response": value}, then the
\* status as it is after the command.
ResponseThenStatus ==
    [][\A s \in Socks :
        (Handling(s) /\ NextCmd(s) # EmptyObj /\ command_responds(NextCmd(s))
                     /\ ~command_raises(NextCmd(s)) /\ ~SendFails(s)) =>
            /\ servo_status' = command_servos(servo_status, NextCmd(s))
            /\ dispatched'[s] = Append(dispatched[s], NextCmd(s))
            /\ out'[s] = out[s] \o << [response |-> generic_command(NextCmd(s))],
                                     status(servo_status') >>]_vars

\* A response followed by the status of the servo the command has moved.
ResponseThenStatusWitness ==
    /\ pc # "crashed"
    /\ \E s \in Socks :
        /\ InMap(s)
        /\ Len(out[s]) >= 3
        /\ IsResponse(out[s][Len(out[s]) - 1])
        /\ out[s][Len(out[s])] = status(servo_status)
        /\ servo_status # SafeLevels

NonEmpty(cmd) == cmd # EmptyObj

Kind(f) == IF IsResponse(f) THEN "response" ELSE "status"

RECURSIVE ReplyKinds(_)
ReplyKinds(cmds) ==
    IF cmds = <<>> THEN <<>>
    ELSE (IF NonEmpty(Head(cmds)) /\ command_responds(Head(cmds))
          THEN <<"response", "status">> ELSE <<"status">>)
         \o ReplyKinds(Tail(cmds))

\* C6: on every connection the commands handled are the first of the
\* commands the client sent, in the order sent; those passed to command()
\* are the non-empty ones among them, in that order; and the frames of the
\* request/reply protocol sent on it are the greeting, then one reply group
\* per handled command, in the same order (cut short only by the worker
\* dying in the middle of a reply).
InOrder ==
    \A s \in Socks :
        /\ IsPrefix(handled[s], sent_cmds[s])
        /\ dispatched[s] = SelectSeq(handled[s], NonEmpty)
        /\ LET kinds == [i \in 1..Len(LoopFrames(s)) |-> Kind(LoopFrames(s)[i])]
               expect == <<"status">> \o ReplyKinds(handled[s])
           IN  IF pc = "crashed" THEN IsPrefix(kinds, expect)
               ELSE InMap(s) => kinds = expect

\* Two different commands handled on one connection, both replied to.
InOrderWitness ==
    /\ pc # "crashed"
    /\ \E s \in Socks :
        /\ InMap(s)
        /\ Len(handled[s]) = 2
        /\ handled[s][1] # handled[s][2]
        /\ NonEmpty(handled[s][1])
        /\ NonEmpty(handled[s][2])

\* C7: a broadcast reaches every connection that was in the map at the
\* call, except those whose send fails.
BroadcastReachesAll ==
    \A i \in 1..Len(last_broadcast.targets) :
        LET s == last_broadcast.targets[i] IN
        s \notin last_broadcast.failing => Member(last_broadcast.delivered, s)

\* C8: when a send of a broadcast fails, no exception leaves broadcast(),
\* the failing connection is out of the map afterwards and the other
\* connections have been sent the message.
BroadcastSurvivesFailure ==
    /\ last_broadcast.exc = "none"
    /\ \A s \in last_broadcast.failing : ~Member(last_broadcast.after, s)
    /\ \A i \in 1..Len(last_broadcast.targets) :
        LET s == last_broadcast.targets[i] IN
        s \notin last_broadcast.failing => Member(last_broadcast.delivered, s)

\* C10: run() never waits in select() with nothing pending while a
\* complete frame sits in a connection's buffer: every complete frame read
\* is dispatched without the client sending more.
NoFrameLeftWaiting ==
    (pc = "select" /\ ReadableNow = <<>> /\ ErrorableNow = <<>>) =>
        \A s \in Socks : InMap(s) => ~HasLine(data[s])

\* run() is about to read the next buffered line of socket s, which is not
\* JSON, and does.
HandlingBadLine(s) ==
    /\ InForLoop
    /\ CurSock = s
    /\ InMap(s)
    /\ HasLine(data[s])
    /\ ~loads(FirstLine(data[s])).ok
    /\ data'[s] # data[s]

\* C11: reading a frame that is not valid JSON leaves the worker running
\* and the connection in the map, and passes nothing to command().
BadFrameIgnored ==
    [][\A s \in Socks :
        HandlingBadLine(s) =>
            /\ pc' # "crashed"
            /\ InMap(s)'
            /\ dispatched' = dispatched]_vars

\* C12: when command() raises, the loop catches the failure and goes on:
\* the worker stays alive with its connections.
CommandFailureCaught ==
    [][\A s \in Socks :
        (Handling(s) /\ NextCmd(s) # EmptyObj /\ command_raises(NextCmd(s))) =>
            /\ pc' # "crashed"
            /\ connections' = connections]_vars

\* run() accepts a connection whose peer has already closed.
AcceptingClosed(s) ==
    /\ pc = "accept"
    /\ readable # <<>>
    /\ readable[1] = SERVER
    /\ Head(backlog) = s
    /\ SendFails(s)
    /\ backlog' # backlog

\* run() handles a command of a connection whose peer has closed, and the
\* command does not fail.
WritingToClosed(s) ==
    /\ Handling(s)
    /\ ~(NextCmd(s) # EmptyObj /\ command_raises(NextCmd(s)))
    /\ SendFails(s)

\* C13: a write to a connection whose peer has closed -- the initial
\* status, a response, a status after a command -- leaves the worker
\* running.
SendFailureSurvived ==
    [][\A s \in Socks :
        (AcceptingClosed(s) \/ WritingToClosed(s)) => pc' # "crashed"]_vars


(***************************************************************************)
(* Properties of the supervisor.                                           *)
(***************************************************************************)
RecordedPaths == {p \in Paths : HasRunner(runners, p)}

\* _process_device_list() has started and stopped what it had to and is
\* about to return.
AtEndOfPoll == main_pc = "process" /\ new_paths = {} /\ missing_paths = {}

\* C14: at the end of _process_device_list() the keys of the map are the
\* device paths of the initialized, included nodes of the poll: each such
\* path without an entry at the start has a runner made in this poll, each
\* entry whose path is not among them is gone, and the entries found at
\* both ends are the same runners as at the start (the startup board's
\* too).
PollApplied ==
    AtEndOfPoll =>
        LET actual == {p \in Paths : is_initialized(nodes[p]) /\ included(nodes[p])} IN
        /\ RecordedPaths = actual
        /\ \A p \in actual \ expected_paths :
              /\ \A k \in Keys : runners[p].id > runners_at_entry[k].id
              /\ runners[p].socket_path
                    = socket_path(board_type_id(p), nodes[p].name)
        /\ \A p \in expected_paths \ actual : ~HasRunner(runners, p)
        /\ \A p \in actual \cap expected_paths :
              runners[p].id = runners_at_entry[p].id
        /\ runners[STARTUP].id = runners_at_entry[STARTUP].id

\* A poll that started one runner, stopped another and left a third entry
\* (the startup board's) alone.
PollAppliedWitness ==
    /\ AtEndOfPoll
    /\ \E p \in Paths : HasRunner(runners, p) /\ p \notin expected_paths
    /\ \E p \in Paths : ~HasRunner(runners, p) /\ p \in expected_paths
    /\ HasRunner(runners, STARTUP)

\* Nothing but plugging and unplugging has happened, the last poll saw the
\* devices as they are now and has been applied, and every worker has
\* bound its socket.
Settled ==
    /\ main_pc = "idle"
    /\ settled
    /\ exits = 0
    /\ \A k \in Keys : HasRunner(runners, k) => runners[k].process = "listening"

Matched(p) == is_initialized(devices[p]) /\ included(devices[p])

\* C15: once the plug and unplug events have stopped and a further poll is
\* complete, the socket paths that exist are those of the plugged, matched
\* devices and of the startup board.
SocketsMatchDevices ==
    Settled =>
        {sp \in SocketPaths : files[sp] # 0}
          = {socket_path("servo_assembly", devices[p].name) : p \in {q \in Paths : Matched(q)}}
            \cup {socket_path("game", "state")}

\* C16: no two runners of the map have the same socket path.
DistinctSocketPaths ==
    \A j, k \in Keys :
        (j # k /\ HasRunner(runners, j) /\ HasRunner(runners, k)) =>
            runners[j].socket_path # runners[k].socket_path

\* C17: for every runner of the map whose process listens on its server
\* socket, the socket file at its path exists and is the one it bound.
ListeningSocketExists ==
    \A k \in Keys :
        runners[k].process = "listening" =>
            files[runners[k].socket_path] = runners[k].id

\* C18: the poll after a device with a worker is gone terminates the
\* worker, joins it, removes its socket path and then drops the entry: the
\* socket is removed only from a joined worker, the entry dropped only with
\* the socket path gone, and at the end of the poll the socket path of
\* every entry it had to stop does not exist.
StoppedInOrder ==
    /\ main_pc = "cleanup" => runners[dead_device].process = "joined"
    /\ main_pc = "del" =>
          /\ runners[dead_device].process = "joined"
          /\ files[runners[dead_device].socket_path] = 0
    /\ AtEndOfPoll =>
          \A p \in expected_paths \ ActualPaths(nodes_by_path) :
              /\ ~HasRunner(runners, p)
              /\ files[runners_at_entry[p].socket_path] = 0

\* The worker of device path p, with socket path sp, has exited by itself.
ExitedAt(p, sp) ==
    runners[p].process = "exited" /\ runners[p].socket_path = sp

\* A worker for device path p runs with socket path sp.
RunningAt(p, sp) ==
    runners[p].process \in {"started", "listening"} /\ runners[p].socket_path = sp

\* The device at path p is there, matched, and sp is its socket path.
PresentAt(p, sp) ==
    Matched(p) /\ sp = socket_path(board_type_id(p), devices[p].name)

\* C19: whenever the worker of a device has exited by itself, later a new
\* worker runs for the same device path with the same socket path (the
\* entry of the old one having been removed from the map), unless the
\* device has gone in between.
RespawnAfterExit ==
    \A p \in Paths, n \in Names :
        LET sp == socket_path(board_type_id(p), n) IN
        ExitedAt(p, sp) ~> (RunningAt(p, sp) \/ ~PresentAt(p, sp))

\* The one device plugged in has its second worker listening, the first
\* having exited by itself.
RespawnWitness ==
    /\ events = 1
    /\ exits = 1
    /\ runners[STARTUP].process \in {"started", "listening"}
    /\ \E p \in Paths :
        /\ runners[p].process = "listening"
        /\ runners[p].id = next_id - 1
        /\ next_id = 5
        /\ PresentAt(p, runners[p].socket_path)

\* C20: every insertion into and deletion from the map is made by a thread
\* that holds runners_lock.
MutationsHoldLock ==
    [][\A k \in Keys :
        HasRunner(runners, k) # HasRunner(runners', k) =>
            IF mon_pc = "scan" /\ mon_items' # mon_items
            THEN runners_lock = "monitor"
            ELSE runners_lock = "main"]_vars

\* receive() on socket s is inside recv() with nothing to return: no line
\* is buffered, no byte is pending and the peer has not closed.
BlockedInRecv(s) ==
    /\ InForLoop
    /\ CurSock = s
    /\ InMap(s)
    /\ ~HasLine(data[s])
    /\ wire[s] = <<>>
    /\ ~peer_closed[s]

\* Client t has sent a complete command the worker has not taken yet.
CommandWaiting(t) ==
    /\ InMap(t)
    /\ ~peer_closed[t]
    /\ HasLine(data[t] \o wire[t])

\* C27: the worker is never inside recv() on a client that has sent nothing,
\* or only part of a frame, while a complete command of another client
\* waits to be dispatched.
NeverBlockedBehindSilentClient ==
    \A s \in Socks, t \in Socks :
        ~(s # t /\ BlockedInRecv(s) /\ CommandWaiting(t))

\* C28: the main thread spawns a worker process, signals one, joins one and
\* removes a socket file only while it does not hold runners_lock.
NoIOUnderLock ==
    [][( \/ next_id' # next_id
         \/ \E k \in Keys :
               /\ runners'[k].process \in {"terminated", "joined"}
               /\ runners'[k].process # runners[k].process
         \/ main_pc = "cleanup" /\ main_pc' = "del" )
       => runners_lock # "main"]_vars

\* C30: whenever the worker of the board created on startup has exited by
\* itself, later a worker for that board runs again.
StartupWorkerKeptAlive ==
    (runners[STARTUP].process = "exited")
        ~> (runners[STARTUP].process \in {"started", "listening"})

\* C21: a failure of the device enumeration in a poll tick does not end the
\* main thread: the tick is given up, and the main thread polls again.
EnumerationFailureContained == main_pc # "enum_raised"

\* C22: when cleanup() has returned after an interrupt, every runner that
\* was in the map when it was called has been terminated, joined and
\* cleaned up, the map is empty and the monitor thread has returned; and
\* the monitor is told to stop only when all board types were processed.
ShutdownComplete ==
    /\ main_pc = "exited" =>
          /\ at_interrupt \subseteq stopped
          /\ \A k \in Keys : ~HasRunner(runners, k)
          /\ mon_pc = "returned"
    /\ monitor_stop_flag =>
          /\ cleanup_types = <<>>
          /\ main_pc \in {"join_monitor", "exited"}

\* C29: once the supervisor is past clear_socket_files(), nothing of an
\* earlier run is left under the root, neither a plain file nor a socket:
\* the sockets there are those of this run's runners (the runners of this
\* run are numbered from 2).
RootPurgedAtStartup ==
    main_pc # "init" =>
        /\ ~root_file
        /\ \A sp \in SocketPaths : files[sp] = 0 \/ files[sp] > 1

\* The digits N for which /media/usb?/zone-N exists, as a file or as a
\* directory, in a directory that holds no main.py.
ZoneDigits(fs) ==
    {N \in 0..9 :
        \E f \in fs : \E q \in {SubSeq(f, 1, n) : n \in 1..Len(f)} :
            /\ Len(q) = 3
            /\ q[1] = <<"m", "e", "d", "i", "a">>
            /\ Len(q[2]) = 4 /\ SubSeq(q[2], 1, 3) = <<"u", "s", "b">>
            /\ q[3] = <<"z", "o", "n", "e", "-">> \o <<Digits[N + 1]>>
            /\ \A g \in fs : ~IsPrefix(<<q[1], q[2], <<"m", "a", "i", "n", ".", "p", "y">>>>, g)}

\* C23, as stated: what status() returned is {zone: N, mode: competition}
\* exactly for the digits N for which an eligible /media/usb?/zone-N exists,
\* and {zone: 0, mode: development} when there is none.
ZoneStatusExact ==
    game_op = "status" =>
        /\ \A N \in 0..9 :
              game_status = Competition(N) <=> N \in ZoneDigits(zone_files)
        /\ ZoneDigits(zone_files) = {} => game_status = Development

\* C23, amended: what status() returned is {zone: N, mode: competition} for
\* one of the digits N for which an eligible /media/usb?/zone-N exists, and
\* {zone: 0, mode: development} when there is none.
ZoneStatus ==
    game_op = "status" =>
        IF ZoneDigits(zone_files) = {}
        THEN game_status = Development
        ELSE \E N \in ZoneDigits(zone_files) : game_status = Competition(N)

\* Two sticks with different zones, and status() has returned the zone of
\* one; a zone file in a directory with main.py, and status() has returned
\* development.
ZoneStatusWitness ==
    /\ game_op = "status"
    /\ \/ /\ ZoneDigits(zone_files) = {2, 6}
          /\ game_status = Competition(6)
       \/ /\ <<<<"m", "e", "d", "i", "a">>, <<"u", "s", "b", "0">>, <<"z", "o", "n", "e", "-", "2">>>> \in zone_files
          /\ <<<<"m", "e", "d", "i", "a">>, <<"u", "s", "b", "0">>, <<"m", "a", "i", "n", ".", "p", "y">>>> \in zone_files
          /\ game_status = Development

\* C24: when status() has returned a zone and is called again with no
\* eligible zone path left, it returns {zone: 0, mode: development}.
StatusRecomputed ==
    (/\ game_op = "status"
     /\ earlier_status.mode = "competition"
     /\ ZoneDigits(zone_files) = {}) => game_status = Development

\* status() returned zone 2, the zone file was removed, and the next
\* status() returned development.
StatusRecomputedWitness ==
    /\ game_op = "status"
    /\ earlier_status = Competition(2)
    /\ zone_files = {}
    /\ game_status = Development

\* C25: after make_safe() the status of the motor board is m0 and m1 at
\* brake and no other key.
BrakedAfterMakeSafe ==
    motor_op = "make_safe" =>
        motor_status = [k \in MotorKeys |->
                           IF k \in {"m0", "m1"} THEN Brake ELSE Absent]

\* make_safe() was called on a status with a running motor and a key that
\* is no motor.
BrakedAfterMakeSafeWitness ==
    /\ motor_op = "make_safe"
    /\ motor_before["m0"] = Speed(1)
    /\ motor_before["x"] # Absent
    /\ motor_status["x"] = Absent

\* The type ids the claim lists, by class name.
ListedTypeId(cls) ==
    CASE cls = MotorBoard -> <<"m", "o", "t", "o", "r", "_", "b", "o", "a", "r", "d">>
      [] cls = PowerBoard -> <<"p", "o", "w", "e", "r", "_", "b", "o", "a", "r", "d">>
      [] cls = ServoAssembly -> <<"s", "e", "r", "v", "o", "_", "a", "s", "s", "e", "m", "b", "l", "y">>
      [] cls = Camera -> <<"c", "a", "m", "e", "r", "a">>
      [] cls = GameState -> <<"g", "a", "m", "e">>

\* The type ids with the trailing 'Board' left out.
StrippedTypeId(cls) ==
    CASE cls = MotorBoard -> <<"m", "o", "t", "o", "r">>
      [] cls = PowerBoard -> <<"p", "o", "w", "e", "r">>
      [] cls = ServoAssembly -> <<"s", "e", "r", "v", "o", "_", "a", "s", "s", "e", "m", "b", "l", "y">>
      [] cls = Camera -> <<"c", "a", "m", "e", "r", "a">>
      [] cls = GameState -> <<"g", "a", "m", "e">>

\* C26, as stated: the socket path of a runner is root/type_id/name, with
\* type ids motor_board, power_board, servo_assembly, camera and game.
SocketPathAsListed ==
    runner_path # <<>> =>
        /\ Len(runner_path) = 3
        /\ runner_path[1] = root_dir
        /\ runner_path[2] = ListedTypeId(runner_class)
        /\ runner_path[3] \in NodeNames \cup {<<"s", "t", "a", "t", "e">>}

\* C26, amended: the socket path of a runner is root/type_id/name, with
\* type ids motor, power, servo_assembly, camera and game.
SocketPathStripped ==
    runner_path # <<>> =>
        /\ Len(runner_path) = 3
        /\ runner_path[1] = root_dir
        /\ runner_path[2] = StrippedTypeId(runner_class)
        /\ runner_path[3] \in NodeNames \cup {<<"s", "t", "a", "t", "e">>}
        /\ runner_class = GameState <=> runner_path[3] = <<"s", "t", "a", "t", "e">>

\* A runner for a motor board was made.
SocketPathWitness ==
    /\ runner_class = MotorBoard
    /\ runner_path = <<root_dir, <<"m", "o", "t", "o", "r">>, <<"S", "N", "1">>>>


\* The multiplexer is in its loop: it accepts, receives, dispatches, closes.
InLoop == pc \in {"accept", "recv", "check"}

\* C31: run() binds, listens on and chmods the socket, then sets the
\* broadcast callback on the driver, then calls start(), and accepts its
\* first client only when start() has returned: the callback is set while
\* start() runs, and no status(), command() or make_safe() is called by the
\* loop, and no client accepted, before start() has returned.
StartupOrder ==
    /\ board_broadcast => server_socket = "listening" /\ socket_mode = "0o777"
    /\ board_state # "new" => board_broadcast
    /\ InLoop => board_state = "started"
    /\ (\E s \in Socks : sock[s] \in {"open", "closed"} \/ out[s] # <<>>)
          => board_state = "started"

\* start() is running, a client waits in the backlog and the driver has
\* broadcast.
StartupOrderWitness ==
    /\ pc = "in_start"
    /\ backlog # <<>>
    /\ broadcasts = 1


\* The /media/usb? directories that hold main.py, and the digits N of the
\* /media/usb?/zone-N in a directory of the given ones.
ProgramDirs(fs) ==
    {d \in {SubSeq(f, 1, 2) : f \in {g \in fs : Len(g) >= 2}} :
        /\ fnmatch(d[2], FILE_GLOB[2])
        /\ \E g \in fs : IsPrefix(d \o <<<<"m", "a", "i", "n", ".", "p", "y">>>>, g)}

UsbDirs(fs) ==
    {d \in {SubSeq(f, 1, 2) : f \in {g \in fs : Len(g) >= 2}} :
        d[1] = FILE_GLOB[1] /\ fnmatch(d[2], FILE_GLOB[2])}

DigitsIn(fs, dirs) ==
    {N \in 0..9 : \E d \in dirs, g \in fs :
        IsPrefix(d \o <<ZONE_PREFIX \o <<Digits[N + 1]>>>>, g)}

\* C32: a zone file in a directory that also holds main.py is passed over:
\* with no zone file elsewhere status() returns {zone: 0, mode:
\* development}, with a zone file in a directory without main.py it returns
\* competition with the zone of such a file, and it returns development only
\* when every zone file lies next to a main.py.
UserProgramSkipped ==
    LET skipped == ProgramDirs(zone_files)
        kept == UsbDirs(zone_files) \ ProgramDirs(zone_files)
    IN  game_op = "status" =>
           /\ DigitsIn(zone_files, kept) = {} => game_status = Development
           /\ DigitsIn(zone_files, kept) # {} =>
                 /\ game_status.mode = "competition"
                 /\ game_status.zone \in DigitsIn(zone_files, kept)
           /\ game_status = Development =>
                 DigitsIn(zone_files, UsbDirs(zone_files)) = DigitsIn(zone_files, skipped)

\* /media/usb0 holds zone-2 and main.py, /media/usb1 holds zone-6, and
\* status() has returned zone 6.
UserProgramSkippedWitness ==
    /\ game_op = "status"
    /\ DigitsIn(zone_files, ProgramDirs(zone_files)) = {2}
    /\ DigitsIn(zone_files, UsbDirs(zone_files) \ ProgramDirs(zone_files)) = {6}
    /\ game_status = Competition(6)


\* C33: a record leaves self.runners only when cleanup() has run for its
\* runner: the step that removes it follows runner.cleanup(), and the
\* runner's socket file is gone.
CleanedWhenDropped ==
    [][\A k \in Keys :
          (HasRunner(runners, k) /\ ~HasRunner(runners', k)) =>
              /\ main_pc = "del" /\ dead_device = k
              /\ files[runners[k].socket_path] # runners[k].id]_vars


\* C35: runner.cleanup() unlinks no socket file of another runner: the file
\* it removes, if any, is the socket of the runner being removed.
UnlinksOwnSocketOnly ==
    [][\A sp \in SocketPaths :
          (main_pc = "cleanup" /\ files[sp] # 0 /\ files'[sp] = 0) =>
              files[sp] = runners[dead_device].id]_vars


\* C36: when the supervisor has terminated the worker, the peripheral is in
\* its safe state: make_safe() has run after the last command and before
\* the process was gone.
SafeWhenTerminated ==
    pc \in {"terminated", "joined", "cleaned"} => servo_status = SafeLevels


\* C37: a command with a speed byte_for_speed() raises for leaves the
\* status of the motor board as it was before the command, and writes
\* nothing to the serial connection.
InvalidSpeedNoEffect ==
    motor_op = "raised" =>
        /\ motor_status = motor_before
        /\ motor_written = <<>>


\* C38: no cvcapture() is made after cvclose(), cvclose() is made at most
\* once, and a capture() that does not return a frame before the close
\* raises 'capture device is closed' (or 'cvcapture() failed' from an open
\* device) and nothing else.
NoCaptureAfterClose ==
    /\ \A i, j \in 1..Len(native_calls) :
          (i < j /\ native_calls[i] = "cvclose") => native_calls[j] # "cvcapture"
    /\ Cardinality({i \in 1..Len(native_calls) : native_calls[i] = "cvclose"}) <= 1
    /\ \A t \in Threads : cap_result[t] \notin {"TypeError", "crash"}


\* C34: a broadcast() made from a thread of the driver while run() accepts
\* and closes connections does not fail on the connection map, and when it
\* has returned, every connection that was in the map from its beginning to
\* its end has been sent the message.
ThreadedBroadcast ==
    /\ bc_exc \notin {"RuntimeError", "OSError"}
    /\ bc_pc = "returned" =>
          \A s \in Socks :
              (Member(bc_targets, s) /\ InMap(s)) => s \in bc_seen


\* What receive() has returned are the first values sent, in order, and
\* when it has returned None at the end of the stream, the peer has closed,
\* nothing is left to read, no complete frame is buffered and every frame
\* sent has been returned.
NoneAtEnd ==
    /\ fr_pc # "raised"
    /\ IsPrefix(fr_got, fr_sent)
    /\ fr_pc = "eof" =>
          /\ fr_closed /\ fr_wire = <<>> /\ ~HasLine(fr_data)
          /\ fr_got = fr_sent

\* C39: receive() returns None only when the peer has closed and no
\* complete frame is buffered; the complete frames buffered then are
\* returned first, one per call and in order, and the bytes of an
\* incomplete last frame are never returned.
NoneOnlyAtEnd ==
    /\ NoneAtEnd
    /\ \A i \in 1..Len(fr_got) : fr_got[i] # Null

====
